---- MODULE Spec2Model ----
(***************************************************************************)
(* A model of the restaurant-to-legal-entity matching pipeline:           *)
(*   src/clients/zyte_client.py   the rate-limited gateway (ZyteClient)    *)
(*   src/searcher/searcher.py     IncorporationSearcher                    *)
(*   src/matcher/matcher.py       RestaurantMatcher                        *)
(*   src/core/models.py           BusinessRecord, MatchResult, config      *)
(*                                                                         *)
(* Text is modelled at character level: a Python str is a sequence of      *)
(* one-character strings, so that the regular-expression steps of          *)
(* _normalize_name, the dictionary lookup by normalized name and the       *)
(* token-sort ratio are computed as the code computes them.                *)
(***************************************************************************)
EXTENDS Integers, Sequences, FiniteSets, TLC

(***************************************************************************)
(* Characters.  Python None for an Optional[str] is the one-element        *)
(* sequence NoneStr, which no text of the model contains.                  *)
(***************************************************************************)
LowerLetters ==
  <<"a","b","c","d","e","f","g","h","i","j","k","l","m",
    "n","o","p","q","r","s","t","u","v","w","x","y","z">>

UpperLetters ==
  <<"A","B","C","D","E","F","G","H","I","J","K","L","M",
    "N","O","P","Q","R","S","T","U","V","W","X","Y","Z">>

DigitChars == <<"0","1","2","3","4","5","6","7","8","9">>

\* Code-point order of the characters that survive normalization.
CharOrder == DigitChars \o <<"_">> \o LowerLetters \o <<"ó">>

Range(f) == {f[x] : x \in DOMAIN f}

\* \w of the re module on the model's alphabet.
WordChars == Range(CharOrder) \cup Range(UpperLetters)

IsWordChar(c) == c \in WordChars

\* \s of the re module on the model's alphabet.
IsSpace(c) == c \in {" ", "\t"}

Digits == Range(DigitChars)

IsDigit(c) == c \in Digits

OrdOf == [c \in Range(CharOrder) |-> CHOOSE i \in 1..Len(CharOrder) : CharOrder[i] = c]

Ord(c) == OrdOf[c]

NoneStr == <<"<None>">>

\* Python truthiness of an Optional[str].
Truthy(s) == s # NoneStr /\ s # <<>>

Min(S) == CHOOSE x \in S : \A y \in S : x <= y

\* str.lower()
LowerOf ==
  [c \in Range(UpperLetters) |->
     LowerLetters[CHOOSE i \in 1..Len(UpperLetters) : UpperLetters[i] = c]]

LowerChar(c) == IF c \in DOMAIN LowerOf THEN LowerOf[c] ELSE c

Lower(s) == [i \in 1..Len(s) |-> LowerChar(s[i])]

\* str.strip()
RECURSIVE LStrip(_)
LStrip(s) == IF s # <<>> /\ IsSpace(Head(s)) THEN LStrip(Tail(s)) ELSE s

RECURSIVE RStrip(_)
RStrip(s) ==
  IF s # <<>> /\ IsSpace(s[Len(s)]) THEN RStrip(SubSeq(s, 1, Len(s) - 1)) ELSE s

Strip(s) == RStrip(LStrip(s))

(***************************************************************************)
(* Name normalization (matcher.py:15-47).  The two alternations are        *)
(* written out as their literals in the order the regex engine tries them  *)
(* (an optional dot is tried present first); the text is already lower     *)
(* case when they are applied, which is what re.IGNORECASE amounts to.     *)
(***************************************************************************)
LegalTermLiterals ==
  <<
    <<"i","n","c",".">>, <<"i","n","c">>, <<"c","o","r","p",".">>, <<"c","o","r","p">>,
    <<"c","o","r","p","o","r","a","t","i","o","n">>, <<"l","l","c">>, <<"l","l","p">>,
    <<"l","l","l","p">>, <<"p","l","l","c">>, <<"l","c">>, <<"c","o",".">>, <<"c","o">>,
    <<"c","o","m","p","a","n","y">>, <<"i","n","c","o","r","p","o","r","a","t","e","d">>,
    <<"l","i","m","i","t","e","d">>, <<"l","t","d",".">>, <<"l","t","d">>, <<"p","l","c">>,
    <<"p",".","l",".","c",".">>, <<"p",".","l",".","c">>, <<"l","t","d">>, <<"l",".","p",".">>,
    <<"l",".","p">>, <<"l","p">>, <<"g","p">>, <<"p","c">>, <<"p",".","c",".">>, <<"p",".","c">>,
    <<"p","a">>, <<"p",".","a",".">>, <<"p",".","a">>,
    <<"p","r","o","f","."," ","c","o","r","p",".">>, <<"p","r","o","f","."," ","c","o","r","p">>,
    <<"p","r","o","f"," ","c","o","r","p",".">>, <<"p","r","o","f"," ","c","o","r","p">>,
    <<"p","r","o","f","e","s","s","i","o","n","a","l"," ","c","o","r","p","o","r","a","t","i","o","n">>,
    <<"g","m","b","h">>, <<"a","g">>, <<"k","g">>, <<"o","h","g">>, <<"u","g">>, <<"b","v">>,
    <<"n",".","v",".">>, <<"n",".","v">>, <<"n","v">>, <<"p","t","e","."," ","l","t","d",".">>,
    <<"p","t","e","."," ","l","t","d">>, <<"p","t","e"," ","l","t","d",".">>,
    <<"p","t","e"," ","l","t","d">>, <<"s","d","n","."," ","b","h","d",".">>,
    <<"s","d","n","."," ","b","h","d">>, <<"s","d","n"," ","b","h","d",".">>,
    <<"s","d","n"," ","b","h","d">>, <<"p","t","y","."," ","l","t","d",".">>,
    <<"p","t","y","."," ","l","t","d">>, <<"p","t","y"," ","l","t","d",".">>,
    <<"p","t","y"," ","l","t","d">>, <<"t","h","e">>, <<"a">>, <<"a","n">>, <<"s","r","l">>,
    <<"s",".","r",".","l",".">>, <<"s",".","r",".","l">>, <<"s","a">>, <<"s",".","a",".">>,
    <<"s",".","a">>, <<"c","o","r","p","o","r","a","c","i","ó","n">>, <<"l","t","d","a",".">>,
    <<"l","t","d","a">>, <<"l","i","m","i","t","a","d","a">>, <<"s","o","c","i","e","d","a","d">>,
    <<"s",".","e",".">>, <<"s",".","e">>
  >>

CommonWordLiterals ==
  <<
    <<"t","h","e">>, <<"d","e">>, <<"d","e","l">>, <<"l","a">>, <<"l","o","s">>, <<"l","a","s">>,
    <<"e","l">>, <<"y">>, <<"a","n","d">>, <<"o","f">>
  >>

\* \b between s[i] and s[i+1] (i = 0 is the start of the text).
WordAt(s, i) == i >= 1 /\ i <= Len(s) /\ IsWordChar(s[i])

Boundary(s, i) == WordAt(s, i) # WordAt(s, i + 1)

MatchesAt(s, i, lit) ==
  /\ i + Len(lit) - 1 <= Len(s)
  /\ \A k \in 1..Len(lit) : s[i + k - 1] = lit[k]

\* The alternatives of \b(t1|t2|...)\b that match at s[i] with a boundary after them.
TermHits(s, i, terms) ==
  {k \in 1..Len(terms) : MatchesAt(s, i, terms[k]) /\ Boundary(s, i - 1 + Len(terms[k]))}

\* Length of the match of \b(t1|t2|...)\b starting at s[i], 0 when there is
\* none: the first alternative of hits that matches is taken.
FirstHitLen(s, i, terms, hits) ==
  IF Boundary(s, i - 1) /\ hits # {} THEN Len(terms[Min(hits)]) ELSE 0

TermMatchLen(s, i, terms) == FirstHitLen(s, i, terms, TermHits(s, i, terms))

\* re.sub(r'\b(t1|t2|...)\b', '', s) from s[i] on; n is the length of the
\* match at s[i].
RECURSIVE RemoveTermsFrom(_, _, _)
SkipMatch(s, i, terms, n) ==
  IF n > 0 THEN RemoveTermsFrom(s, i + n, terms)
  ELSE <<s[i]>> \o RemoveTermsFrom(s, i + 1, terms)

RemoveTermsFrom(s, i, terms) ==
  IF i > Len(s) THEN <<>> ELSE SkipMatch(s, i, terms, TermMatchLen(s, i, terms))

RemoveTerms(s, terms) == RemoveTermsFrom(s, 1, terms)

\* re.sub(r'\([^)]*\)', '', s) from s[i] on.
RECURSIVE RemoveParensFrom(_, _)
RemoveParensFrom(s, i) ==
  IF i > Len(s) THEN <<>>
  ELSE LET closers == {j \in (i + 1)..Len(s) : s[j] = ")"}
       IN  IF s[i] = "(" /\ closers # {}
             THEN RemoveParensFrom(s, Min(closers) + 1)
             ELSE <<s[i]>> \o RemoveParensFrom(s, i + 1)

RemoveParens(s) == RemoveParensFrom(s, 1)

\* re.sub(r'[^\w\s]', '', s)
RemovePunctuation(s) == SelectSeq(s, LAMBDA c : IsWordChar(c) \/ IsSpace(c))

\* re.sub(r'\s+', ' ', s)
RECURSIVE CollapseSpaces(_)
CollapseSpaces(s) ==
  IF s = <<>> THEN <<>>
  ELSE IF IsSpace(Head(s))
         THEN <<" ">> \o CollapseSpaces(LStrip(s))
         ELSE <<Head(s)>> \o CollapseSpaces(Tail(s))

NormalizeText(name) ==
  IF ~Truthy(name) THEN <<>>
  ELSE Strip(CollapseSpaces(RemovePunctuation(
         RemoveTerms(RemoveTerms(RemoveParens(Lower(name)), LegalTermLiterals),
                     CommonWordLiterals))))

(***************************************************************************)
(* Fuzzy similarity (matcher.py:136-141).  fuzz.token_sort_ratio splits    *)
(* each text on whitespace, sorts the tokens, joins them with one space    *)
(* and returns 100 * (1 - indel / (len1 + len2)), with indel = len1 + len2 *)
(* - 2 * LCS; two empty texts score 100.  The float is kept exact as the   *)
(* fraction num / den.                                                     *)
(***************************************************************************)
\* str.split()
RECURSIVE Split(_)
SplitAt(t, ends) ==
  IF t = <<>> THEN <<>>
  ELSE IF ends = {} THEN <<t>>
  ELSE <<SubSeq(t, 1, Min(ends) - 1)>> \o Split(SubSeq(t, Min(ends), Len(t)))

SpacesOf(t) == {i \in 1..Len(t) : IsSpace(t[i])}

Split(s) == SplitAt(LStrip(s), SpacesOf(LStrip(s)))

\* a < b in Python's str order.
RECURSIVE StrLess(_, _)
StrLess(a, b) ==
  IF b = <<>> THEN FALSE
  ELSE IF a = <<>> THEN TRUE
  ELSE IF Head(a) = Head(b) THEN StrLess(Tail(a), Tail(b))
  ELSE Ord(Head(a)) < Ord(Head(b))

RECURSIVE InsertToken(_, _)
InsertToken(sorted, t) ==
  IF sorted = <<>> THEN <<t>>
  ELSE IF StrLess(t, Head(sorted)) THEN <<t>> \o sorted
  ELSE <<Head(sorted)>> \o InsertToken(Tail(sorted), t)

\* sorted(tokens)
RECURSIVE SortTokens(_)
SortTokens(tokens) ==
  IF tokens = <<>> THEN <<>>
  ELSE InsertToken(SortTokens(SubSeq(tokens, 1, Len(tokens) - 1)), tokens[Len(tokens)])

\* " ".join(tokens)
RECURSIVE JoinSpace(_)
JoinSpace(tokens) ==
  IF tokens = <<>> THEN <<>>
  ELSE IF Len(tokens) = 1 THEN tokens[1]
  ELSE tokens[1] \o <<" ">> \o JoinSpace(Tail(tokens))

Max2(x, y) == IF x >= y THEN x ELSE y

\* One row of the longest-common-subsequence table: cur holds columns 0..Len(cur)-1.
RECURSIVE LcsRow(_, _, _, _)
LcsRow(prev, ch, b, cur) ==
  LET j == Len(cur)
  IN  IF j > Len(b) THEN cur
      ELSE LcsRow(prev, ch, b,
                  Append(cur, IF ch = b[j] THEN prev[j] + 1
                              ELSE Max2(prev[j + 1], cur[j])))

RECURSIVE LcsRows(_, _, _)
LcsRows(a, b, prev) ==
  IF a = <<>> THEN prev
  ELSE LcsRows(Tail(a), b, LcsRow(prev, Head(a), b, <<0>>))

Lcs(a, b) == LcsRows(a, b, [j \in 1..(Len(b) + 1) |-> 0])[Len(b) + 1]

\* fuzz.ratio
Ratio(a, b) ==
  IF Len(a) + Len(b) = 0 THEN [num |-> 100, den |-> 1]
  ELSE [num |-> 200 * Lcs(a, b), den |-> Len(a) + Len(b)]

TokenSortRatio(a, b) ==
  Ratio(JoinSpace(SortTokens(Split(a))), JoinSpace(SortTokens(Split(b))))

\* Comparison and addition of exact scores.
ScoreGE(x, y) == x.num * y.den >= y.num * x.den

ScoreEq(x, y) == x.num * y.den = y.num * x.den

ScorePlus(x, n) == [num |-> x.num + n * x.den, den |-> x.den]

ScoreOfInt(n) == [num |-> n, den |-> 1]

\* list.sort(key=..., reverse=True) as the order of the indices: x goes after
\* every element whose key is >= its own, which keeps equal keys in input order.
RECURSIVE InsertDesc(_, _, _)
InsertDesc(order, keys, i) ==
  IF order = <<>> THEN <<i>>
  ELSE IF ScoreGE(keys[Head(order)], keys[i])
         THEN <<Head(order)>> \o InsertDesc(Tail(order), keys, i)
         ELSE <<i>> \o order

RECURSIVE SortOrderUpTo(_, _)
SortOrderUpTo(keys, n) ==
  IF n = 0 THEN <<>> ELSE InsertDesc(SortOrderUpTo(keys, n - 1), keys, n)

\* A faulty sort, best first with equal keys in the reverse of the input order.
SortTiesReversed(keys) ==
  [i \in 1..Len(keys) |->
     Len(keys) + 1
     - SortOrderUpTo([j \in 1..Len(keys) |-> keys[Len(keys) + 1 - j]], Len(keys))[i]]

SortDescOrder(keys) == SortOrderUpTo(keys, Len(keys))

\* seq[:n]
Take(seq, n) == SubSeq(seq, 1, IF Len(seq) < n THEN Len(seq) ELSE n)

(***************************************************************************)
(* Exceptions.  A call's outcome is [exc |-> class, val |-> value]: exc is *)
(* "none" when the call returned val, and the class raised otherwise.      *)
(***************************************************************************)
ExceptionParent ==
  [Exception |-> "BaseException",
   RuntimeError |-> "Exception",
   AttributeError |-> "Exception",
   TypeError |-> "Exception",
   ValueError |-> "Exception",
   ValidationError |-> "ValueError",
   JSONDecodeError |-> "ValueError",
   ClientError |-> "Exception",
   ClientResponseError |-> "ClientError",
   ContentTypeError |-> "ClientResponseError",
   ClientConnectionError |-> "ClientError",
   TimeoutError |-> "Exception",
   APIStatusError |-> "Exception",
   APIConnectionError |-> "Exception"]

RECURSIVE IsSubclass(_, _)
IsSubclass(e, cls) ==
  \/ e = cls
  \/ e \in DOMAIN ExceptionParent /\ IsSubclass(ExceptionParent[e], cls)

\* An except clause naming the classes in `classes` catches outcome r.
Caught(r, classes) == r.exc # "none" /\ \E c \in classes : IsSubclass(r.exc, c)

Return(v) == [exc |-> "none", val |-> v]

Raise(cls) == [exc |-> cls, val |-> <<>>]

\* try: r / except <classes>: handled -- the outcome of the statement, given
\* the outcome r of the try block and the outcome of the handler.
Except(r, classes, handled) == IF Caught(r, classes) THEN handled ELSE r

\* Python None for an optional object is <<>>; a present object x is <<x>>.
None == <<>>

Some(x) == <<x>>

(***************************************************************************)
(* The gateway's retry loop (zyte_client.py:95-132 and 171-208, the same   *)
(* code on both paths).  One HTTP attempt ends in one of:                  *)
(*   [kind |-> "status", status |-> n]   a response with status n # 200    *)
(*   [kind |-> "data", data |-> d]       status 200 and a JSON document d  *)
(*   [kind |-> "raise", exc |-> e]       session.post or resp.json raised  *)
(* and a JSON document d is [mapping, valid, body]: whether it is an       *)
(* object, whether ZyteHttpResponse accepts it, and its httpResponseBody.  *)
(***************************************************************************)
max_retries == 3

retry_backoff == 2

\* What one pass of the for loop does next.
Continue == [next |-> "continue", exc |-> "none", val |-> None]

Returns(v) == [next |-> "return", exc |-> "none", val |-> v]

Raises(cls) == [next |-> "raise", exc |-> cls, val |-> None]

\* The body of the try block for one attempt.
AttemptBody(outcome, attempt) ==
  IF outcome.kind = "raise" THEN Raises(outcome.exc)
  ELSE IF outcome.kind = "status"
    THEN IF outcome.status >= 500 /\ attempt < max_retries
           THEN Continue
           ELSE Raises("ClientResponseError")
  ELSE IF ~outcome.data.mapping THEN Raises("TypeError")
  ELSE IF ~outcome.data.valid THEN Raises("ValidationError")
  ELSE Returns(Some([httpResponseBody |-> outcome.data.body]))

\* The except clause of the loop (zyte_client.py:121-132), given the outcome
\* r of the try block: retry after the backoff sleep, or let r through.
AttemptExcept(r, attempt) ==
  IF Caught(r, {"ValueError", "ClientError"}) /\ attempt < max_retries
    THEN Continue
    ELSE r

\* One pass of the for loop: "continue", a returned ZyteHttpResponse, or the
\* exception that leaves the loop.
AttemptStep(outcome, attempt) == AttemptExcept(AttemptBody(outcome, attempt), attempt)

\* The seconds slept after failed attempt number `attempt`.
BackoffDelay(attempt) == retry_backoff * attempt

\* The loop from attempt number `attempt` on, given the outcome of each
\* attempt; r is what the pass for this attempt did.
RECURSIVE RetryLoop(_, _)
AfterAttempt(r, outcomes, attempt) ==
  IF r.next = "continue"
    THEN RetryLoop(outcomes, attempt + 1)
    ELSE [exc |-> r.exc, val |-> r.val]

RetryLoop(outcomes, attempt) ==
  IF attempt > max_retries THEN Return(None)
  ELSE AfterAttempt(AttemptStep(outcomes[attempt], attempt), outcomes, attempt)

\* A faulty readiness check, which lets every call through.
AlwaysReady(s) == TRUE

\* `if not self.session or self.session.closed` (zyte_client.py:76, 153):
\* the session is None ("none"), open, or closed.
SessionReady(s) == s = "open"

\* post_request / get_request as a function of the session and of what the
\* proxy answers to each attempt.
GatewayRequest(s, outcomes) ==
  IF ~SessionReady(s) THEN Raise("RuntimeError") ELSE RetryLoop(outcomes, 1)

(***************************************************************************)
(* ZyteHttpResponse.decode_body (api_models.py:10-21).  httpResponseBody   *)
(* is None (<<>>) or [decodable, doc]: whether the base64 text decodes to  *)
(* JSON, and the JSON document.                                            *)
(***************************************************************************)
decode_body(resp) ==
  IF resp.httpResponseBody = None THEN Raise("ValueError")
  ELSE IF ~resp.httpResponseBody[1].decodable THEN Raise("ValueError")
  ELSE Return(resp.httpResponseBody[1].doc)

\* CorporationSearchResponse(**doc) / CorporationDetailResponse(**doc): doc is
\* [mapping, valid, response]; pydantic raises ValidationError on a field of
\* the wrong type, and ** raises TypeError on a document that is no object.
ParseEnvelope(doc) ==
  IF ~doc.mapping THEN Raise("TypeError")
  ELSE IF ~doc.valid THEN Raise("ValidationError")
  ELSE Return(Some([response |-> doc.response]))

(***************************************************************************)
(* IncorporationSearcher (searcher.py).  A CorporationSearchRecord is      *)
(* [businessEntityId, registrationNumber, registrationIndex, corpName,     *)
(* statusEn]; an absent Optional[int] is 0, which the code cannot tell     *)
(* from None (it only tests truthiness).                                   *)
(***************************************************************************)
\* The decoded body is parsed, when decoding did not raise.
ParseDecoded(decoded) ==
  IF decoded.exc # "none" THEN decoded ELSE ParseEnvelope(decoded.val)

\* The try block of _make_corporation_search_request and of
\* _make_corporation_detail_get_request: gw is the outcome of the gateway
\* call; the inner `except ValidationError` returns None.
MakeRequestTry(gw) ==
  IF gw.exc # "none" THEN gw
  ELSE IF gw.val = None THEN Raise("AttributeError")
  ELSE Except(ParseDecoded(decode_body(gw.val[1])), {"ValidationError"}, Return(None))

\* searcher.py:69-88: `except Exception` returns None.
_make_corporation_search_request(gw) ==
  Except(MakeRequestTry(gw), {"Exception"}, Return(None))

\* searcher.py:113-131
_make_corporation_detail_get_request(gw) ==
  Except(MakeRequestTry(gw), {"Exception"}, Return(None))

\* The try block of search_business (searcher.py:36-63), given the outcome r
\* of _make_corporation_search_request.
SearchBusinessTry(r) ==
  IF r.exc # "none" THEN r
  ELSE IF /\ r.val # None
          /\ r.val[1].response # None
          /\ r.val[1].response[1].records # <<>>
    THEN Return(r.val[1].response[1].records)
    ELSE Return(<<>>)

\* A faulty search_business, with no except clause on either level.
SearchBusinessUnguarded(gw) == SearchBusinessTry(MakeRequestTry(gw))

\* search_business (searcher.py:35-67)
search_business(gw) ==
  Except(SearchBusinessTry(_make_corporation_search_request(gw)),
         {"Exception"}, Return(<<>>))

\* str(n) of a non-negative int.
RECURSIVE IntToStr(_)
IntToStr(n) ==
  IF n < 10 THEN <<DigitChars[n + 1]>>
  ELSE IntToStr(n \div 10) \o <<DigitChars[(n % 10) + 1]>>

\* f"{x}" of an Optional[str].
FormatStr(s) == IF s = NoneStr THEN <<"N","o","n","e">> ELSE s

\* x or ''
OrEmpty(s) == IF Truthy(s) THEN s ELSE <<>>

\* sep.join(parts)
RECURSIVE Join(_, _)
Join(sep, parts) ==
  IF parts = <<>> THEN <<>>
  ELSE IF Len(parts) = 1 THEN parts[1]
  ELSE parts[1] \o sep \o Join(sep, Tail(parts))

\* [p for p in parts if p]
Present(parts) == SelectSeq(parts, Truthy)

(***************************************************************************)
(* BusinessRecord (models.py:65-84).  The four str fields are required:    *)
(* pydantic raises ValidationError when one of them is None.               *)
(***************************************************************************)
BusinessRecord(legal_name, registration_number, registration_index, status, business_address, resident_agent_name, resident_agent_address) ==
  IF NoneStr \in {legal_name, registration_number, registration_index, status}
    THEN Raise("ValidationError")
    ELSE Return([legal_name |-> legal_name,
                 registration_number |-> registration_number,
                 registration_index |-> registration_index,
                 status |-> status,
                 business_address |-> business_address,
                 resident_agent_name |-> resident_agent_name,
                 resident_agent_address |-> resident_agent_address])

\* BusinessRecord.from_corporation: a CorporationDetail object is truthy
\* whatever its fields hold, so `if corporation` is true for corporation # None.
from_corporation(corporation, business_address, resident_agent_name, resident_agent_address) ==
  BusinessRecord(
    IF corporation # None THEN corporation[1].corpName ELSE <<>>,
    IF corporation # None /\ corporation[1].corpRegisterNumber # 0
      THEN IntToStr(corporation[1].corpRegisterNumber) ELSE <<>>,
    IF corporation # None THEN corporation[1].corpRegisterIndex ELSE <<>>,
    IF corporation # None THEN corporation[1].statusEn ELSE <<>>,
    business_address, resident_agent_name, resident_agent_address)

\* _create_business_record_from_search (searcher.py:220-226)
_create_business_record_from_search(record) ==
  BusinessRecord(
    OrEmpty(record.corpName),
    IF record.registrationNumber # 0 THEN IntToStr(record.registrationNumber) ELSE <<>>,
    OrEmpty(record.registrationIndex),
    OrEmpty(record.statusEn),
    NoneStr, NoneStr, NoneStr)

\* The address of a StreetAddressDetail, parts joined by sep.
StreetAddress(location, fields, sep) ==
  IF location # None /\ location[1].streetAddress # None
    THEN Join(sep, Present([i \in 1..Len(fields) |-> location[1].streetAddress[1][fields[i]]]))
    ELSE <<>>

\* The resident agent's name (searcher.py:158-172).
ResidentAgentName(agent) ==
  IF agent = None THEN <<>>
  ELSE IF agent[1].isIndividual /\ agent[1].individualName # None
    THEN Join(<<" ">>, Present(<<agent[1].individualName[1].firstName,
                                 agent[1].individualName[1].middleName,
                                 agent[1].individualName[1].lastName,
                                 agent[1].individualName[1].surName>>))
  ELSE IF agent[1].organizationName # None
    THEN OrEmpty(agent[1].organizationName[1].name)
  ELSE <<>>

\* _create_business_record_from_details (searcher.py:133-188)
_create_business_record_from_details(details) ==
  from_corporation(
    details.corporation,
    StreetAddress(details.mainLocation, <<"address1", "address2", "city", "zip">>,
                  <<",", " ">>),
    ResidentAgentName(details.residentAgent),
    Strip(StreetAddress(details.residentAgent, <<"address1", "address2">>, <<" ">>)))

\* The try block of _get_business_details (searcher.py:92-107), given the
\* outcome r of _make_corporation_detail_get_request: the detail data, or None.
GetBusinessDetailsTry(r) ==
  IF r.exc # "none" THEN r
  ELSE IF /\ r.val # None
          /\ r.val[1].response # None
          /\ r.val[1].response[1].corporation # None
    THEN Return(r.val[1].response)
    ELSE Return(None)

\* _get_business_details (searcher.py:90-111)
_get_business_details(gw) ==
  Except(GetBusinessDetailsTry(_make_corporation_detail_get_request(gw)),
         {"Exception"}, Return(None))

\* `if business_entity_id:` (searcher.py:197): a detail request is made.
FetchesDetails(record) == record.businessEntityId # 0

\* A faulty pass, with no fallback to the search record.
FromDetailsOnly(record, detailed) ==
  IF detailed.exc # "none" THEN detailed
  ELSE IF detailed.val # None
    THEN _create_business_record_from_details(detailed.val[1])
    ELSE Raise("ValueError")

\* searcher.py:201-206: the record built from what _get_business_details
\* answered, or from the search record.
FromDetailsOrSearch(record, detailed) ==
  IF detailed.exc # "none" THEN detailed
  ELSE IF detailed.val # None
    THEN _create_business_record_from_details(detailed.val[1])
    ELSE _create_business_record_from_search(record)

\* The body of the try block of get_business_details_for_records for one
\* record (searcher.py:195-212): the record to append, or an exception.  gw
\* is the outcome of the gateway call, read only when a request is made.
BusinessRecordFor(record, gw) ==
  IF FetchesDetails(record)
    THEN FromDetailsOrSearch(record, _get_business_details(gw))
    ELSE _create_business_record_from_search(record)

\* A faulty loop, in which a failed pass discards the records built so far.
AfterPassAbort(business_records, r) ==
  IF r.exc = "none" THEN Append(business_records, r.val) ELSE <<>>

\* business_records after one pass of the loop whose try block ended as r:
\* `business_records.append(business_record)`, or `except Exception: continue`.
AfterPass(business_records, r) ==
  IF r.exc = "none" THEN Append(business_records, r.val) ELSE business_records

\* The exception that leaves the loop after a pass whose try block ended as
\* r, "none" when the pass completes.
PassEscape(r) == Except(r, {"Exception"}, Return(None)).exc

(***************************************************************************)
(* The inputs: the listings matched, the registry's search records and     *)
(* detail data, what the proxy can answer and what the assistant can say.  *)
(***************************************************************************)
\* RestaurantRecord: the fields the matcher reads.  The listings of a run, in
\* the order of the input file; the suffix of the last one is dotted.
ListingSeq ==
  <<[name |-> <<"E","l"," ","C","o","q","u","i">>, city |-> <<"S","a","n"," ","J","u","a","n">>, postal_code |-> <<"0","0","9","0","8">>],
    [name |-> <<"R","i","o"," ","B","a","r"," ","I","n","c",".">>, city |-> <<>>, postal_code |-> <<"0","0","7","1","6">>],
    [name |-> <<"C","o","q","u","i"," ","L",".","L",".","C",".">>, city |-> <<"P","o","n","c","e">>, postal_code |-> <<>>]>>

Listings == Range(ListingSeq)

\* CorporationSearchRecord values of the registry, in registry order: a full
\* record, one with an entity identifier and no registration index, one with
\* no entity identifier, index or status, a full one, and one with no name.
Registry ==
  <<[businessEntityId |-> 1, registrationNumber |-> 11, registrationIndex |-> <<"1","1","-","1">>,
     corpName |-> <<"C","o","q","u","i"," ","L","L","C">>, statusEn |-> <<"A","C","T","I","V","E">>],
    [businessEntityId |-> 2, registrationNumber |-> 12, registrationIndex |-> NoneStr,
     corpName |-> <<"C","O","Q","U","I",","," ","I","N","C",".">>, statusEn |-> <<"A","C","T","I","V","E">>],
    [businessEntityId |-> 0, registrationNumber |-> 0, registrationIndex |-> NoneStr,
     corpName |-> <<"C","o","q","u","i"," ","B","a","r"," ","C","o","r","p">>, statusEn |-> NoneStr],
    [businessEntityId |-> 4, registrationNumber |-> 14, registrationIndex |-> <<"1","4","-","1">>,
     corpName |-> <<"R","i","o"," ","B","a","r">>, statusEn |-> <<"A","C","T","I","V","E">>],
    [businessEntityId |-> 5, registrationNumber |-> 15, registrationIndex |-> <<"1","5","-","1">>,
     corpName |-> NoneStr, statusEn |-> <<"A","C","T","I","V","E">>]>>

\* Names the assistant may put in its "matches" array: two that normalize to
\* the name of a registry record and one that does not.
ReplyNames ==
  {<<"c","o","q","u","i">>,
   <<"C","o","q","u","i"," ","B","a","r"," ","C","o","r","p",".">>,
   <<"t","a","p","a","s">>}

(***************************************************************************)
(* The texts of the model and their normalized forms and similarities,     *)
(* each computed once: _normalize_name and fuzz.token_sort_ratio are       *)
(* looked up in the tables that NormalizeText and TokenSortRatio fill.     *)
(***************************************************************************)
SourceNames ==
  {l.name : l \in Listings} \cup {Registry[i].corpName : i \in 1..Len(Registry)}
  \cup ReplyNames \cup {<<>>, NoneStr}

NormalizeAll(names) == [n \in names |-> NormalizeText(n)]

\* The listing's name is normalized a second time at matcher.py:139, so the
\* normalized forms are texts to normalize too.
NormalizedNames == NormalizeAll(SourceNames \cup Range(NormalizeAll(SourceNames)))

\* _normalize_name (matcher.py:23-47)
_normalize_name(name) == NormalizedNames[name]

RatioAll(names) == [a \in names |-> [b \in names |-> TokenSortRatio(a, b)]]

Ratios == RatioAll(Range(NormalizedNames))

\* fuzz.token_sort_ratio
token_sort_ratio(a, b) == Ratios[a][b]

\* matcher.py:137-138: the two strings handed to the comparison, each the
\* normalization of its argument, and the second argument.
ComparedNames(name1, name2) ==
  [listing_side |-> _normalize_name(name1),
   candidate_side |-> _normalize_name(name2),
   candidate |-> name2]

\* _calculate_name_similarity (matcher.py:136-141)
_calculate_name_similarity(name1, name2) ==
  token_sort_ratio(ComparedNames(name1, name2).listing_side,
                   ComparedNames(name1, name2).candidate_side)

(***************************************************************************)
(* RestaurantMatcher (matcher.py).                                         *)
(***************************************************************************)
\* The normalized corpName of each record (matcher.py:84-85).
NormalizedKeys(legal_records) ==
  [i \in 1..Len(legal_records) |-> _normalize_name(legal_records[i].corpName)]

\* The dict built at matcher.py:83-85 from the records and their keys: a
\* later record replaces an earlier one with the same key.
LookupOf(legal_records, keys) ==
  [k \in Range(keys) |->
     legal_records[CHOOSE i \in 1..Len(keys) :
                     keys[i] = k /\ \A j \in (i + 1)..Len(keys) : keys[j] # k]]

RecordLookup(legal_records) == LookupOf(legal_records, NormalizedKeys(legal_records))

\* matcher.py:73: the normalized form of each name of the "matches" array.
NormalizedMatches(names) == [i \in 1..Len(names) |-> _normalize_name(names[i])]

\* matcher.py:74-76: the record of every key the dict holds, in the order of
\* the keys and as often as a key occurs.
RecordsOf(keys, lookup) ==
  LET found == SelectSeq(keys, LAMBDA k : k \in DOMAIN lookup)
  IN  [i \in 1..Len(found) |-> lookup[found[i]]]

\* A loop that gives up at the first name the dict does not hold.
RECURSIVE StopAtUnknown(_, _)
StopAtUnknown(names, lookup) ==
  IF names = <<>> \/ _normalize_name(Head(names)) \notin DOMAIN lookup THEN <<>>
  ELSE <<lookup[_normalize_name(Head(names))]>> \o StopAtUnknown(Tail(names), lookup)

\* The loop at matcher.py:72-77 over the names of the "matches" array.
ResolveNames(names, lookup) == RecordsOf(NormalizedMatches(names), lookup)

\* _parse_openai_matches (matcher.py:55-79).  The cleaned text is [strict,
\* relaxed, value]: whether json.loads accepts it, whether ast.literal_eval
\* accepts it, and the value it denotes, [isDict, hasMatches, iterable,
\* matches].  A text neither decoder accepts leaves parsed at None; iterating
\* a "matches" value that is no array raises TypeError.
_parse_openai_matches(text, lookup) ==
  IF ~(text.strict \/ text.relaxed) \/ ~text.value.isDict \/ ~text.value.hasMatches
    THEN Return(<<>>)
  ELSE IF ~text.value.iterable THEN Raise("TypeError")
  ELSE Return(ResolveNames(text.value.matches, lookup))

\* The try block of _rank_name_matches_with_llm (matcher.py:87-130): llm is
\* the outcome of chat_completion, None or a dict [hasContent, content].  An
\* empty list of parsed records and the `return []` that follows are the same
\* outcome.
RankTry(legal_records, llm) ==
  IF llm.exc # "none" THEN llm
  ELSE IF llm.val # None /\ llm.val[1].hasContent /\ llm.val[1].content # None
    THEN _parse_openai_matches(llm.val[1].content[1], RecordLookup(legal_records))
    ELSE Return(<<>>)

\* _rank_name_matches_with_llm (matcher.py:81-134)
_rank_name_matches_with_llm(legal_records, llm) ==
  Except(RankTry(legal_records, llm), {"Exception"}, Return(<<>>))

\* OpenAIClient.chat_completion (openai_client.py:36-81): api is the outcome of
\* client.chat.completions.create, a message content or an exception.
chat_completion(api) ==
  IF Caught(api, {"APIStatusError"}) THEN Raise(api.exc)
  ELSE IF Caught(api, {"JSONDecodeError"}) THEN Return(None)
  ELSE IF Caught(api, {"Exception"}) THEN Return(None)
  ELSE IF api.exc # "none" THEN api
  ELSE Return(Some([hasContent |-> TRUE, content |-> api.val]))

PrefilterLimit == 10

FallbackLimit == 3

\* matcher.py:238: `if record.corpName`
Named(search_records) == SelectSeq(search_records, LAMBDA r : Truthy(r.corpName))

\* matcher.py:239: the similarity of each named record to the listing's name.
NameScores(normalized_restaurant_name, named) ==
  [i \in 1..Len(named) |->
     _calculate_name_similarity(normalized_restaurant_name, named[i].corpName)]

\* matcher.py:237-239: the comparisons of the prefilter, one per named record.
PrefilterComparisons(normalized_restaurant_name, search_records) ==
  [i \in 1..Len(Named(search_records)) |->
     ComparedNames(normalized_restaurant_name, Named(search_records)[i].corpName)]

\* seq in the order given by a sequence of its indices.
Reorder(seq, order) == [i \in 1..Len(order) |-> seq[order[i]]]

\* A prefilter that cuts to ten before it sorts.
CutThenSort(named, scores) ==
  Reorder(Take(named, PrefilterLimit), SortDescOrder(Take(scores, PrefilterLimit)))

\* matcher.py:243-244: best score first, and the first ten.
TopByScore(named, scores) == Take(Reorder(named, SortDescOrder(scores)), PrefilterLimit)

\* matcher.py:236-244
Prefilter(normalized_restaurant_name, search_records) ==
  TopByScore(Named(search_records),
             NameScores(normalized_restaurant_name, Named(search_records)))

\* A faulty fallback, which keeps the whole prefiltered list.
FallbackAll(top_3_records, top_10_records) ==
  IF top_3_records = <<>> THEN top_10_records ELSE top_3_records

\* matcher.py:247-248
FallbackTop3(top_3_records, top_10_records) ==
  IF top_3_records = <<>> THEN Take(top_10_records, FallbackLimit) ELSE top_3_records

(***************************************************************************)
(* Scoring (matcher.py:143-212, 297-303; models.py:99-108).                *)
(***************************************************************************)
SCORE_THRESHOLD == 50

HIGH_CONFIDENCE_THRESHOLD == 70

MEDIUM_CONFIDENCE_THRESHOLD == 50

POSTAL_CODE_BONUS == 30

CITY_MATCH_BONUS == 20

\* The starts of the matches of \b\d{5}\b in address.
PostalCodeStarts(address) ==
  {i \in 1..(Len(address) - 4) :
     /\ \A k \in 0..4 : IsDigit(address[i + k])
     /\ Boundary(address, i - 1)
     /\ Boundary(address, i + 4)}

FirstPostalCode(address, starts) ==
  IF ~Truthy(address) \/ starts = {} THEN <<>>
  ELSE SubSeq(address, Min(starts), Min(starts) + 4)

\* _extract_postal_code: re.search(r'\b(\d{5})\b', address)
_extract_postal_code(address) == FirstPostalCode(address, PostalCodeStarts(address))

\* address.split(',')
RECURSIVE SplitComma(_)
SplitAtComma(s, commas) ==
  IF commas = {} THEN <<s>>
  ELSE <<SubSeq(s, 1, Min(commas) - 1)>> \o SplitComma(SubSeq(s, Min(commas) + 1, Len(s)))

SplitComma(s) == SplitAtComma(s, {i \in 1..Len(s) : s[i] = ","})

\* re.sub(r'\d+', '', s)
RemoveDigits(s) == SelectSeq(s, LAMBDA c : ~IsDigit(c))

\* re.search(r'\d{5}$', s)
EndsWithFiveDigits(s) == Len(s) >= 5 /\ \A k \in 0..4 : IsDigit(s[Len(s) - k])

\* [part.strip() for part in pieces if part.strip()]
StrippedParts(pieces) ==
  SelectSeq([i \in 1..Len(pieces) |-> Strip(pieces[i])], LAMBDA p : p # <<>>)

\* matcher.py:203-212: the city among the non-empty parts of the address.
CityOfParts(parts) ==
  IF parts = <<>> THEN <<>>
  ELSE Strip(RemoveDigits(IF EndsWithFiveDigits(parts[Len(parts)]) /\ Len(parts) >= 2
                            THEN parts[Len(parts) - 1]
                            ELSE parts[Len(parts)]))

\* _extract_city: the second definition (matcher.py:195-212) replaces the
\* first (matcher.py:183-193) in the class body.
_extract_city(address) ==
  IF ~Truthy(address) THEN <<>> ELSE CityOfParts(StrippedParts(SplitComma(address)))

\* matcher.py:153-158, given the postal code extracted from the address.
PostalCodeMatches(restaurant, business, business_postal_code) ==
  /\ Truthy(restaurant.postal_code) /\ Truthy(business.business_address)
  /\ Truthy(business_postal_code)
  /\ restaurant.postal_code = business_postal_code

\* matcher.py:161-166, given the city extracted from the address.
CityMatches(restaurant, business, business_city) ==
  /\ Truthy(restaurant.city) /\ Truthy(business.business_address)
  /\ Truthy(business_city)
  /\ Lower(restaurant.city) = Lower(business_city)

\* A faulty score, capped at 100.
ScoreCapped(name_score, postal_code_match, city_match) ==
  [final_score |->
     IF ScoreGE(ScorePlus(name_score,
                          (IF postal_code_match THEN 30 ELSE 0)
                          + (IF city_match THEN 20 ELSE 0)), ScoreOfInt(100))
       THEN ScoreOfInt(100)
       ELSE ScorePlus(name_score,
                      (IF postal_code_match THEN 30 ELSE 0) + (IF city_match THEN 20 ELSE 0)),
   match_reason |-> <<"Name match">>,
   postal_code_match |-> postal_code_match,
   city_match |-> city_match]

\* matcher.py:150-170, given the two comparisons: the reason is the sequence
\* of its parts, each named by its label.
ScoreWith(name_score, postal_code_match, city_match) ==
  [final_score |-> ScorePlus(name_score,
                             (IF postal_code_match THEN POSTAL_CODE_BONUS ELSE 0)
                             + (IF city_match THEN CITY_MATCH_BONUS ELSE 0)),
   match_reason |-> <<"Name match">>
                    \o (IF postal_code_match THEN <<"Postal code bonus">> ELSE <<>>)
                    \o (IF city_match THEN <<"City bonus">> ELSE <<>>),
   postal_code_match |-> postal_code_match,
   city_match |-> city_match]

\* _calculate_match_score (matcher.py:143-170); an absent address is read by
\* neither extraction.
_calculate_match_score(restaurant, business, name_score) ==
  ScoreWith(name_score,
            PostalCodeMatches(restaurant, business,
                              _extract_postal_code(business.business_address)),
            CityMatches(restaurant, business, _extract_city(business.business_address)))

\* A faulty classification, with no middle tier.
TwoTiers(confidence_score) ==
  IF ScoreGE(confidence_score, ScoreOfInt(70)) THEN "high" ELSE "low"

\* determine_match_type (matcher.py:297-303)
determine_match_type(confidence_score) ==
  IF ScoreGE(confidence_score, ScoreOfInt(HIGH_CONFIDENCE_THRESHOLD)) THEN "high"
  ELSE IF ScoreGE(confidence_score, ScoreOfInt(MEDIUM_CONFIDENCE_THRESHOLD)) THEN "medium"
  ELSE "low"

\* A faulty sentinel, which is accepted.
NoMatchAccepted(restaurant, reason) ==
  [restaurant |-> restaurant,
   business |-> None,
   confidence_score |-> ScoreOfInt(0),
   match_type |-> "none",
   is_accepted |-> TRUE,
   name_score |-> ScoreOfInt(0),
   postal_code_match |-> FALSE,
   city_match |-> FALSE,
   match_reason |-> <<reason>>]

\* The sentinel MatchResult of matcher.py:223-233 and 285-295.
NoMatch(restaurant, reason) ==
  [restaurant |-> restaurant,
   business |-> None,
   confidence_score |-> ScoreOfInt(0),
   match_type |-> "none",
   is_accepted |-> FALSE,
   name_score |-> ScoreOfInt(0),
   postal_code_match |-> FALSE,
   city_match |-> FALSE,
   match_reason |-> <<reason>>]

\* A MatchResult that accepts every scored business.
AcceptAll(restaurant, candidate_business, name_score, scored) ==
  [restaurant |-> restaurant,
   business |-> Some(candidate_business),
   confidence_score |-> scored.final_score,
   match_type |-> determine_match_type(scored.final_score),
   is_accepted |-> TRUE,
   name_score |-> name_score,
   postal_code_match |-> scored.postal_code_match,
   city_match |-> scored.city_match,
   match_reason |-> scored.match_reason]

\* matcher.py:263-275: the MatchResult, given the score of the business.
MatchResultOf(restaurant, candidate_business, name_score, scored) ==
  [restaurant |-> restaurant,
   business |-> Some(candidate_business),
   confidence_score |-> scored.final_score,
   match_type |-> determine_match_type(scored.final_score),
   is_accepted |-> ScoreGE(scored.final_score, ScoreOfInt(SCORE_THRESHOLD)),
   name_score |-> name_score,
   postal_code_match |-> scored.postal_code_match,
   city_match |-> scored.city_match,
   match_reason |-> scored.match_reason]

\* matcher.py:260-261, given the name score.
ScoredWith(restaurant, candidate_business, name_score) ==
  MatchResultOf(restaurant, candidate_business, name_score,
                _calculate_match_score(restaurant, candidate_business, name_score))

\* The MatchResult built for one resolved business (matcher.py:257-275).
ScoredMatch(restaurant, candidate_business) ==
  ScoredWith(restaurant, candidate_business,
             _calculate_name_similarity(restaurant.name, candidate_business.legal_name))

\* matcher.py:256-277: the MatchResult of every business, in their order.
AllMatches(restaurant, detailed_businesses) ==
  [i \in 1..Len(detailed_businesses) |-> ScoredMatch(restaurant, detailed_businesses[i])]

\* matcher.py:256-257: the comparisons of the final scoring, one per business.
ScoringComparisons(restaurant, detailed_businesses) ==
  [i \in 1..Len(detailed_businesses) |->
     ComparedNames(restaurant.name, detailed_businesses[i].legal_name)]

ConfidenceScores(all_matches) ==
  [i \in 1..Len(all_matches) |-> all_matches[i].confidence_score]

\* A faulty return, with no sentinel.
SortedOnly(restaurant, all_matches) ==
  Reorder(all_matches, SortDescOrder(ConfidenceScores(all_matches)))

\* matcher.py:279-295: best first, or the sentinel.
SortedOrSentinel(restaurant, all_matches) ==
  IF all_matches # <<>>
    THEN Reorder(all_matches, SortDescOrder(ConfidenceScores(all_matches)))
    ELSE <<NoMatch(restaurant, "No valid matches found")>>

\* matcher.py:254-295
RankedMatches(restaurant, detailed_businesses) ==
  SortedOrSentinel(restaurant, AllMatches(restaurant, detailed_businesses))

\* What a search returns: the first n records of the registry, for every n.
SearchResults == {SubSeq(Registry, 1, n) : n \in 0..Len(Registry)}

NoStreet == [address1 |-> NoneStr, address2 |-> NoneStr, city |-> NoneStr, zip |-> NoneStr]

\* The CorporationDetailResponseData the registry holds for a record.
DetailData(record) ==
  [corporation |->
     Some([corpName |-> record.corpName,
           corpRegisterNumber |-> record.registrationNumber,
           corpRegisterIndex |-> OrEmpty(record.registrationIndex),
           statusEn |-> record.statusEn]),
   mainLocation |->
     IF record.businessEntityId = 1
       THEN Some([streetAddress |->
                    Some([address1 |-> <<"1"," ","S","o","l">>, address2 |-> NoneStr,
                          city |-> <<"S","a","n"," ","J","u","a","n">>, zip |-> <<"0","0","9","0","8">>])])
     ELSE IF record.businessEntityId = 4
       THEN Some([streetAddress |->
                    Some([address1 |-> <<"2"," ","M","a","r">>, address2 |-> <<"A","p","t"," ","3">>,
                          city |-> <<"P","o","n","c","e">>, zip |-> <<"0","0","7","1","6">>])])
     ELSE None,
   residentAgent |->
     IF record.businessEntityId = 1
       THEN Some([isIndividual |-> TRUE,
                  individualName |-> Some([firstName |-> <<"A","n","a">>, middleName |-> NoneStr,
                                           lastName |-> <<"D","i","a","z">>, surName |-> NoneStr]),
                  organizationName |-> None,
                  streetAddress |-> Some([NoStreet EXCEPT !.address1 = <<"1"," ","S","o","l">>])])
     ELSE IF record.businessEntityId = 4
       THEN Some([isIndividual |-> FALSE,
                  individualName |-> None,
                  organizationName |-> Some([name |-> <<"R","B">>]),
                  streetAddress |-> None])
     ELSE None]

\* The detail data with one field of the corporation block missing.
WithoutField(data, field) ==
  [data EXCEPT !.corporation = Some([data.corporation[1] EXCEPT ![field] = NoneStr])]

\* JSON documents of a detail response: no object, an object of the wrong
\* shape, and envelopes with no response, no corporation block, the registry's
\* data, and that data without the corporation's name or registration index.
Envelope(response) == [mapping |-> TRUE, valid |-> TRUE, response |-> response]

BadDocuments ==
  {[mapping |-> FALSE, valid |-> FALSE, response |-> None],
   [mapping |-> TRUE, valid |-> FALSE, response |-> None],
   Envelope(None)}

DetailVariants(data) ==
  {Envelope(Some([data EXCEPT !.corporation = None])),
   Envelope(Some(data)),
   Envelope(Some(WithoutField(data, "corpName"))),
   Envelope(Some(WithoutField(data, "corpRegisterIndex")))}

DetailDocuments(record) == BadDocuments \cup DetailVariants(DetailData(record))

\* JSON documents of a search response.
SearchDocuments ==
  BadDocuments \cup
  {Envelope(Some([totalRecords |-> Len(records), records |-> records])) :
     records \in SearchResults}

\* The httpResponseBody values that carry the documents, a missing body and a
\* body that does not decode.
Bodies(documents) ==
  {None, Some([decodable |-> FALSE, doc |-> Envelope(None)])}
  \cup {Some([decodable |-> TRUE, doc |-> d]) : d \in documents}

\* What the proxy can answer to one HTTP attempt.
FailedAttempts ==
  {[kind |-> "status", status |-> 503],
   [kind |-> "status", status |-> 404],
   [kind |-> "raise", exc |-> "ClientConnectionError"],
   [kind |-> "raise", exc |-> "ContentTypeError"],
   [kind |-> "raise", exc |-> "JSONDecodeError"],
   [kind |-> "raise", exc |-> "TimeoutError"],
   [kind |-> "data", data |-> [mapping |-> FALSE, valid |-> FALSE, body |-> None]],
   [kind |-> "data", data |-> [mapping |-> TRUE, valid |-> FALSE, body |-> None]]}

AnsweredAttempts(bodies) ==
  {[kind |-> "data", data |-> [mapping |-> TRUE, valid |-> TRUE, body |-> b]] : b \in bodies}

\* The answers to the attempts of one request: the same failure on the first
\* attempts, then any answer.
AttemptScripts(bodies) ==
  {[i \in 1..max_retries |-> IF i < n THEN f ELSE last] :
     n \in 1..max_retries, f \in FailedAttempts,
     last \in FailedAttempts \cup AnsweredAttempts(bodies)}

\* The outcomes of a gateway request under those scripts.
GatewayOutcomes(s, bodies) == {GatewayRequest(s, sc) : sc \in AttemptScripts(bodies)}

\* The longest "matches" array the assistant returns.
MaxMatches == 4

\* The sequences over S of length n, and of length at most n.
RECURSIVE SeqsOfLen(_, _)
Extend(shorter, S) == {Append(s, x) : s \in shorter, x \in S}

SeqsOfLen(S, n) == IF n = 0 THEN {<<>>} ELSE Extend(SeqsOfLen(S, n - 1), S)

SeqsUpTo(S, n) == UNION {SeqsOfLen(S, k) : k \in 0..n}

\* The values the assistant's text can denote.
ReplyValues ==
  {[isDict |-> FALSE, hasMatches |-> FALSE, iterable |-> FALSE, matches |-> <<>>],
   [isDict |-> TRUE, hasMatches |-> FALSE, iterable |-> FALSE, matches |-> <<>>],
   [isDict |-> TRUE, hasMatches |-> TRUE, iterable |-> FALSE, matches |-> <<>>]}
  \cup {[isDict |-> TRUE, hasMatches |-> TRUE, iterable |-> TRUE, matches |-> m] :
          m \in SeqsUpTo(ReplyNames, MaxMatches)}

\* The assistant's texts: valid JSON, Python literals that are not JSON (of
\* the shorter values), and text neither decoder accepts.
ReplyTexts ==
  {[strict |-> TRUE, relaxed |-> TRUE, value |-> v] : v \in ReplyValues}
  \cup {[strict |-> FALSE, relaxed |-> TRUE, value |-> v] :
          v \in {w \in ReplyValues : Len(w.matches) <= 1}}
  \cup {[strict |-> FALSE, relaxed |-> FALSE, value |-> v] :
          v \in {w \in ReplyValues : ~w.isDict}}

\* The outcomes of client.chat.completions.create.
ApiOutcomes ==
  {Raise("APIStatusError"), Raise("APIConnectionError"), Raise("JSONDecodeError"),
   Return(None)}
  \cup {Return(Some(t)) : t \in ReplyTexts}

\* What the matcher's assistant client answers: OpenAIClient.chat_completion,
\* or a scripted client's dict without "content" (mock_clients.py).
AssistantOutcomes ==
  {chat_completion(api) : api \in ApiOutcomes}
  \cup {Return(Some([hasContent |-> FALSE, content |-> None]))}

\* The gateway outcomes of a search request and of a detail request for each
\* record, by session state.
SessionStates == {"none", "open", "closed"}

SearchOutcomes == [s \in SessionStates |-> GatewayOutcomes(s, Bodies(SearchDocuments))]

DetailOutcomes ==
  [s \in SessionStates |->
     [r \in Range(Registry) |-> GatewayOutcomes(s, Bodies(DetailDocuments(r)))]]

(***************************************************************************)
(* State.  The gateway: its session, the admissions its limiters granted   *)
(* and the HTTP requests sent, per path, and the calls in flight.  One     *)
(* find_best_match call, or one use of the searcher alone: its position,   *)
(* its locals and what it returned or raised.                              *)
(***************************************************************************)
VARIABLES
  session,          \* ZyteClient.session: "none", "open" or "closed"
  closing,          \* a close() call is past `await self.session.close()`
  admissions,       \* [post, get]: admissions granted by each AsyncLimiter
  http_sent,        \* [post, get]: session.post calls made on each path
  calls,            \* per caller: the post_request/get_request call in flight
  log,              \* the attempts of the observed call: answer, seconds slept
  level,            \* [post, get]: admissions each AsyncLimiter holds
  elapsed,          \* seconds gone by, at most: sleeps and leaks, up to time_period
  pc,               \* where the coroutine is
  restaurant,       \* the argument of find_best_match
  search_response,  \* what post_request answered to the search request
  search_records,   \* locals of find_best_match
  top_10_records,
  llm_response,     \* what chat_completion answered, while the rerank runs
  top_3_records,    \* also the argument of get_business_details_for_records
  detail_response,  \* what get_request answered in the last pass of its loop
  business_records, \* local of get_business_details_for_records
  idx,              \* the position of its for loop in the records
  detail_requests,  \* the registration index of each detail request made
  result,           \* the list find_best_match returned
  escaped,          \* the exception that left the call, or "none"
  filtered_restaurants, \* main: the listings that passed the filters
  main_pc,          \* where main is
  tasks,            \* per listing: its match_restaurant_to_legal_entity task
  restaurant_results,   \* what asyncio.gather returned
  match_results,    \* what process_restaurant_results collected
  error_count,
  acquisitions,     \* how many times main entered the searcher
  releases,         \* how many times main closed the session
  compared,         \* the pairs of names find_best_match has compared
  args,             \* a function applied on its own: its arguments
  returned          \* and what it returned, call after call

limiter_vars == <<level, elapsed>>

gateway_vars == <<session, closing, admissions, http_sent, calls, log, limiter_vars>>

searcher_vars ==
  <<search_response, search_records, top_3_records, detail_response,
    business_records, idx, detail_requests>>

matcher_vars == <<restaurant, top_10_records, llm_response, result>>

main_vars ==
  <<filtered_restaurants, main_pc, tasks, restaurant_results, match_results, error_count,
    acquisitions, releases>>

call_vars == <<args, returned>>

vars ==
  <<gateway_vars, searcher_vars, matcher_vars, main_vars, call_vars, compared, pc, escaped>>

Paths == {"post", "get"}

NumCallers == 2

Callers == 1..NumCallers

IdleCall ==
  [pc |-> "idle", path |-> "post", session_at_call |-> "none", attempt |-> 0,
   exc |-> "none", admitted |-> FALSE, sent |-> 0, delay |-> 0]

GatewayInit ==
  /\ closing = FALSE
  /\ admissions = [p \in Paths |-> 0]
  /\ http_sent = [p \in Paths |-> 0]
  /\ calls = [c \in Callers |-> IdleCall]
  /\ log = <<>>
  /\ level = [p \in Paths |-> 0]
  /\ elapsed = 0

CallerInit ==
  /\ pc = "start"
  /\ search_response = None
  /\ search_records = <<>>
  /\ top_10_records = <<>>
  /\ llm_response = None
  /\ top_3_records = <<>>
  /\ detail_response = None
  /\ business_records = <<>>
  /\ idx = 0
  /\ detail_requests = <<>>
  /\ result = <<>>
  /\ escaped = "none"
  /\ compared = <<>>

\* A task that asyncio.gather has scheduled and that has not started: the
\* requests its match has made, and how find_best_match and the task ended.
PendingTask == [pc |-> "pending", requests |-> 0, matched |-> None, outcome |-> None]

\* main (main.py:33-77) up to `async with searcher`, for these listings.
MainInit(listings) ==
  /\ filtered_restaurants = listings
  /\ main_pc = "start"
  /\ tasks = [t \in 1..Len(listings) |-> PendingTask]
  /\ restaurant_results = <<>>
  /\ match_results = <<>>
  /\ error_count = 0
  /\ acquisitions = 0
  /\ releases = 0

\* No function is applied on its own.
NoCall ==
  /\ args = <<>>
  /\ returned = <<>>

\* An exception leaves the call.
Escape(exc) ==
  /\ escaped' = exc
  /\ pc' = "done"

(***************************************************************************)
(* search_business (searcher.py:35-67), as find_best_match calls it        *)
(* (matcher.py:215-219).                                                   *)
(***************************************************************************)
\* The gateway answers the search request.
SearchRequest ==
  /\ pc = "start"
  /\ \E gw \in SearchOutcomes[session] : search_response' = Some(gw)
  /\ pc' = "searching"
  /\ UNCHANGED <<gateway_vars, matcher_vars, main_vars, call_vars, compared, escaped,
                 search_records, top_3_records,
                 detail_response, business_records, idx, detail_requests>>

\* search_business ends as r.
SearchEnds(r) ==
  IF r.exc # "none"
    THEN /\ Escape(r.exc)
         /\ UNCHANGED search_records
    ELSE /\ search_records' = r.val
         /\ pc' = "searched"
         /\ UNCHANGED escaped

\* search_business handles the answer and returns.
SearchReturn ==
  /\ pc = "searching"
  /\ SearchEnds(search_business(search_response[1]))
  /\ UNCHANGED <<gateway_vars, matcher_vars, main_vars, call_vars, compared, search_response,
                 top_3_records,
                 detail_response, business_records, idx, detail_requests>>

(***************************************************************************)
(* find_best_match (matcher.py:214-295), one action per await.             *)
(***************************************************************************)
\* matcher.py:221-233: no candidates.
NoCandidates ==
  /\ pc = "searched"
  /\ search_records = <<>>
  /\ result' = <<NoMatch(restaurant, "No candidates found")>>
  /\ pc' = "done"
  /\ UNCHANGED <<gateway_vars, searcher_vars, restaurant, main_vars, call_vars, compared,
                 top_10_records,
                 llm_response, escaped>>

\* matcher.py:235-245: the fuzzy prefilter, then the assistant is asked.
Ask ==
  /\ pc = "searched"
  /\ search_records # <<>>
  /\ top_10_records' = Prefilter(_normalize_name(restaurant.name), search_records)
  /\ compared' = compared \o PrefilterComparisons(_normalize_name(restaurant.name), search_records)
  /\ pc' = "asked"
  /\ UNCHANGED <<gateway_vars, searcher_vars, restaurant, main_vars, call_vars, llm_response,
                 result, escaped>>

\* matcher.py:107-113: the assistant's client answers (or raises).
Answer ==
  /\ pc = "asked"
  /\ \E llm \in AssistantOutcomes : llm_response' = Some(llm)
  /\ pc' = "answered"
  /\ UNCHANGED <<gateway_vars, searcher_vars, restaurant, main_vars, call_vars, compared,
                 top_10_records, result, escaped>>

\* _rank_name_matches_with_llm ends as r; matcher.py:247-248 follows.
RerankEnds(r) ==
  IF r.exc # "none"
    THEN /\ Escape(r.exc)
         /\ UNCHANGED top_3_records
    ELSE /\ top_3_records' = FallbackTop3(r.val, top_10_records)
         /\ pc' = "ranked"
         /\ UNCHANGED escaped

\* matcher.py:115-134 and 245-248: the answer is parsed and mapped back to
\* records, and the fallback applies.
Rerank ==
  /\ pc = "answered"
  /\ RerankEnds(_rank_name_matches_with_llm(top_10_records, llm_response[1]))
  /\ UNCHANGED <<gateway_vars, matcher_vars, main_vars, call_vars, compared, search_response,
                 search_records,
                 detail_response, business_records, idx, detail_requests>>

\* matcher.py:251: get_business_details_for_records is called on
\* top_3_records; the answer of the assistant was a local of the rerank.
BeginDetails ==
  /\ pc = "ranked"
  /\ llm_response' = None
  /\ business_records' = <<>>
  /\ idx' = 1
  /\ pc' = "details"
  /\ UNCHANGED <<gateway_vars, restaurant, main_vars, call_vars, compared, top_10_records,
                 result, escaped,
                 search_response, search_records, top_3_records, detail_response,
                 detail_requests>>

(***************************************************************************)
(* get_business_details_for_records (searcher.py:190-218).                 *)
(***************************************************************************)
\* What the gateway can answer for a record: nothing is asked for a record
\* with no entity identifier.
DetailAnswers(s, record) ==
  IF FetchesDetails(record) THEN DetailOutcomes[s][record] ELSE {Return(None)}

\* searcher.py:93: the detail URL is built from the record's registration
\* index; requests holds the index of every request made.
RequestsAfter(requests, record) ==
  IF FetchesDetails(record)
    THEN Append(requests, FormatStr(record.registrationIndex))
    ELSE requests

\* One pass of the for loop ends: its try block ended as r.
PassEnds(r) ==
  IF PassEscape(r) # "none"
    THEN /\ Escape(PassEscape(r))
         /\ UNCHANGED <<business_records, idx>>
    ELSE /\ business_records' = AfterPass(business_records, r)
         /\ idx' = idx + 1
         /\ pc' = "details"
         /\ UNCHANGED escaped

\* One pass of the loop inside find_best_match: the detail request, when one
\* is made, is answered and handled.
ResolveDetails ==
  /\ pc = "details"
  /\ idx <= Len(top_3_records)
  /\ \E gw \in DetailAnswers(session, top_3_records[idx]) :
       PassEnds(BusinessRecordFor(top_3_records[idx], gw))
  /\ detail_requests' = RequestsAfter(detail_requests, top_3_records[idx])
  /\ UNCHANGED <<gateway_vars, matcher_vars, main_vars, call_vars, compared, search_response,
                 search_records,
                 top_3_records, detail_response>>

\* matcher.py:253-295: the loop is over; the results are scored and returned.
Score ==
  /\ pc = "details"
  /\ idx > Len(top_3_records)
  /\ result' = RankedMatches(restaurant, business_records)
  /\ compared' = compared \o ScoringComparisons(restaurant, business_records)
  /\ pc' = "done"
  /\ UNCHANGED <<gateway_vars, searcher_vars, restaurant, main_vars, call_vars,
                 top_10_records, llm_response, escaped>>

(***************************************************************************)
(* The searcher used on its own: the same loop, one action per await.      *)
(***************************************************************************)
\* The longest list of records handed to get_business_details_for_records.
MaxRecords == 2

CandidateLists == SeqsUpTo(Range(Registry), MaxRecords)

\* get_business_details_for_records(records) is called.
CallDetails ==
  /\ pc = "start"
  /\ top_3_records' \in CandidateLists
  /\ idx' = 1
  /\ pc' = "details"
  /\ UNCHANGED <<gateway_vars, matcher_vars, main_vars, call_vars, compared, escaped,
                 search_response, search_records,
                 detail_response, business_records, detail_requests>>

\* searcher.py:197-200: the record has an entity identifier; the detail
\* request is made and the gateway answers.
DetailRequest ==
  /\ pc = "details"
  /\ idx <= Len(top_3_records)
  /\ FetchesDetails(top_3_records[idx])
  /\ \E gw \in DetailOutcomes[session][top_3_records[idx]] : detail_response' = Some(gw)
  /\ detail_requests' = RequestsAfter(detail_requests, top_3_records[idx])
  /\ pc' = "fetched"
  /\ UNCHANGED <<gateway_vars, matcher_vars, main_vars, call_vars, compared, escaped,
                 search_response, search_records,
                 top_3_records, business_records, idx>>

\* searcher.py:200-216: the answer is handled and the pass ends.
DetailReturn ==
  /\ pc = "fetched"
  /\ PassEnds(BusinessRecordFor(top_3_records[idx], detail_response[1]))
  /\ UNCHANGED <<gateway_vars, matcher_vars, main_vars, call_vars, compared, search_response,
                 search_records,
                 top_3_records, detail_response, detail_requests>>

\* searcher.py:207-210: a pass for a record with no entity identifier.
SummaryPass ==
  /\ pc = "details"
  /\ idx <= Len(top_3_records)
  /\ ~FetchesDetails(top_3_records[idx])
  /\ PassEnds(BusinessRecordFor(top_3_records[idx], Return(None)))
  /\ detail_response' = None
  /\ UNCHANGED <<gateway_vars, matcher_vars, main_vars, call_vars, compared, search_response,
                 search_records,
                 top_3_records, detail_requests>>

\* searcher.py:218
ReturnRecords ==
  /\ pc = "details"
  /\ idx > Len(top_3_records)
  /\ pc' = "returned"
  /\ UNCHANGED <<gateway_vars, matcher_vars, main_vars, call_vars, compared, searcher_vars,
                 escaped>>

(***************************************************************************)
(* ZyteClient (zyte_client.py), one action per await of each caller.       *)
(***************************************************************************)
\* AsyncLimiter(max_rate=250, time_period=60) (zyte_client.py:32-33)
max_rate == 250

\* What the proxy answers to one attempt of a call in flight.
AttemptOutcomes ==
  {[kind |-> "status", status |-> 503],
   [kind |-> "raise", exc |-> "ClientConnectionError"],
   [kind |-> "raise", exc |-> "TimeoutError"]}
  \cup AnsweredAttempts({None})

\* __aenter__ (zyte_client.py:41-56): a session is created unless one is open.
Enter ==
  /\ session # "open"
  /\ session' = "open"
  /\ UNCHANGED <<closing, admissions, http_sent, calls, log, limiter_vars, searcher_vars,
                 matcher_vars, main_vars, call_vars, compared,
                 pc, escaped>>

\* close() up to its await (zyte_client.py:66-67): the session is closed.
CloseSession ==
  /\ session = "open"
  /\ ~closing
  /\ session' = "closed"
  /\ closing' = TRUE
  /\ UNCHANGED <<admissions, http_sent, calls, log, limiter_vars, searcher_vars, matcher_vars,
                 main_vars, call_vars, compared, pc, escaped>>

\* close() after its await (zyte_client.py:68): self.session = None.
DropSession ==
  /\ closing
  /\ session' = "none"
  /\ closing' = FALSE
  /\ UNCHANGED <<admissions, http_sent, calls, log, limiter_vars, searcher_vars, matcher_vars,
                 main_vars, call_vars, compared, pc, escaped>>

\* post_request / get_request is called (zyte_client.py:76-77, 153-154): the
\* readiness check.  Each caller makes one call.
BeginCall(c, path) ==
  /\ calls[c].pc = "idle"
  /\ calls' = [calls EXCEPT ![c] =
       [IdleCall EXCEPT
          !.path = path,
          !.session_at_call = session,
          !.pc = IF SessionReady(session) THEN "waiting" ELSE "raised",
          !.exc = IF SessionReady(session) THEN "none" ELSE "RuntimeError"]]
  /\ UNCHANGED <<session, closing, admissions, http_sent, log, limiter_vars, searcher_vars,
                 matcher_vars, main_vars, call_vars, compared,
                 pc, escaped>>

\* AsyncLimiter(max_rate=250, time_period=60): the limiter holds at most
\* max_rate admissions and leaks them at max_rate per time_period seconds.
\* Budget is the max_rate of the model's runs.
time_period == 60

Budget == 1

Capacity == IF Budget < max_rate THEN Budget ELSE max_rate

\* A faulty gateway, with one limiter for both paths.
SharedLimiter(path) == "post"

\* The limiter a call on this path is admitted by: post_rate_limiter for
\* post_request, get_rate_limiter for get_request (zyte_client.py:82, 159).
LimiterOf(path) == path

\* `async with self.post_rate_limiter` (zyte_client.py:82, 159): the limiter
\* admits the call once it has capacity; until then the call waits.
Admit(c) ==
  /\ calls[c].pc = "waiting"
  /\ level[LimiterOf(calls[c].path)] < Capacity
  /\ level' = [level EXCEPT ![LimiterOf(calls[c].path)] = @ + 1]
  /\ admissions' = [admissions EXCEPT ![calls[c].path] = @ + 1]
  /\ calls' = [calls EXCEPT ![c].pc = "attempting", ![c].admitted = TRUE, ![c].attempt = 1]
  /\ UNCHANGED <<session, closing, http_sent, log, elapsed, searcher_vars, matcher_vars,
                 main_vars, call_vars, compared,
                 pc, escaped>>

\* The seconds gone by after d more, counted up to time_period.
Later(d) == IF elapsed + d < time_period THEN elapsed + d ELSE time_period

\* Time passes: a limiter leaks one admission, which takes time_period /
\* max_rate seconds.
Leak(p) ==
  /\ level[p] > 0
  /\ level' = [level EXCEPT ![p] = @ - 1]
  /\ elapsed' = Later(time_period \div Capacity)
  /\ UNCHANGED <<session, closing, admissions, http_sent, calls, log, searcher_vars,
                 matcher_vars, main_vars, call_vars, compared, pc, escaped>>

\* The call after one pass of the loop did r.
CallAfter(call, r) ==
  IF r.next = "continue"
    THEN [call EXCEPT !.pc = "sleeping", !.delay = BackoffDelay(call.attempt)]
  ELSE IF r.next = "return" THEN [call EXCEPT !.pc = "returned"]
  ELSE [call EXCEPT !.pc = "raised", !.exc = r.exc]

\* One attempt on an open session (zyte_client.py:96-132): the request is
\* sent and the proxy's answer handled.
AttemptEnds(c, outcome) ==
  /\ calls' = [calls EXCEPT ![c] =
       CallAfter([calls[c] EXCEPT !.sent = @ + 1], AttemptStep(outcome, calls[c].attempt))]
  /\ http_sent' = [http_sent EXCEPT ![calls[c].path] = @ + 1]

\* One attempt (zyte_client.py:96-132), the proxy answering one of outcomes:
\* self.session.post on no session raises AttributeError and on a closed one
\* RuntimeError, neither of which the except clause names; on an open session
\* the request is sent.
AttemptOn(c, outcomes) ==
  /\ calls[c].pc = "attempting"
  /\ IF session = "open"
       THEN \E outcome \in outcomes : AttemptEnds(c, outcome)
       ELSE /\ calls' = [calls EXCEPT ![c] =
                 CallAfter(calls[c], Raises(IF session = "none" THEN "AttributeError"
                                                                ELSE "RuntimeError"))]
            /\ UNCHANGED http_sent
  /\ UNCHANGED <<session, closing, admissions, log, limiter_vars, searcher_vars,
                 matcher_vars, main_vars, call_vars, compared, pc, escaped>>

Attempt(c) == AttemptOn(c, AttemptOutcomes)

\* asyncio.sleep(self.retry_backoff * attempt) is over: the next attempt.
Wake(c) ==
  /\ calls[c].pc = "sleeping"
  /\ calls' = [calls EXCEPT ![c].pc = "attempting", ![c].attempt = @ + 1, ![c].delay = 0]
  /\ elapsed' = Later(calls[c].delay)
  /\ UNCHANGED <<session, closing, admissions, http_sent, log, level, searcher_vars,
                 matcher_vars, main_vars, call_vars, compared, pc, escaped>>

(***************************************************************************)
(* The specifications.                                                     *)
(***************************************************************************)
\* A listing for the runs in which find_best_match is not called.
NoListing == [name |-> <<>>, city |-> <<>>, postal_code |-> <<>>]

\* find_best_match for one listing, on a gateway whose session is in any state.
Init ==
  /\ session \in SessionStates
  /\ restaurant \in Listings
  /\ GatewayInit
  /\ CallerInit
  /\ MainInit(<<>>)
  /\ NoCall

Next ==
  \/ SearchRequest \/ SearchReturn \/ NoCandidates \/ Ask \/ Answer \/ Rerank
  \/ BeginDetails \/ ResolveDetails \/ Score

Spec == Init /\ [][Next]_vars

\* The searcher used on its own.
SearcherInit ==
  /\ session \in SessionStates
  /\ restaurant = NoListing
  /\ GatewayInit
  /\ CallerInit
  /\ MainInit(<<>>)
  /\ NoCall

SearcherNext ==
  \/ SearchRequest \/ SearchReturn
  \/ CallDetails \/ DetailRequest \/ DetailReturn \/ SummaryPass \/ ReturnRecords

SearcherSpec == SearcherInit /\ [][SearcherNext]_vars

\* The gateway and its callers.
GatewayOnlyInit ==
  /\ session = "none"
  /\ restaurant = NoListing
  /\ GatewayInit
  /\ CallerInit
  /\ MainInit(<<>>)
  /\ NoCall

GatewayNext ==
  \/ Enter \/ CloseSession \/ DropSession
  \/ \E c \in Callers :
       \/ \E path \in Paths : BeginCall(c, path)
       \/ Admit(c) \/ Attempt(c) \/ Wake(c)
  \/ \E p \in Paths : Leak(p)

GatewaySpec == GatewayOnlyInit /\ [][GatewayNext]_vars

(***************************************************************************)
(* The retry loop of one call, observed attempt by attempt.                *)
(***************************************************************************)
\* The caller whose attempts are recorded in log.
Observed == Min(Callers)

\* What the proxy answers to one attempt of the observed call: a server
\* error, a client error, a connection reset, the total timeout of the session
\* (asyncio.TimeoutError, which is no aiohttp.ClientError), a JSON document
\* that ZyteHttpResponse rejects, or an envelope.
ProxyAnswers ==
  {[kind |-> "status", status |-> 503],
   [kind |-> "status", status |-> 404],
   [kind |-> "raise", exc |-> "ClientConnectionError"],
   [kind |-> "raise", exc |-> "TimeoutError"],
   [kind |-> "data", data |-> [mapping |-> TRUE, valid |-> FALSE, body |-> None]]}
  \cup AnsweredAttempts({None})

\* One attempt of the observed call on an open session; the answer and the
\* seconds slept after it are recorded.
ObservedAttempt ==
  /\ calls[Observed].pc = "attempting"
  /\ session = "open"
  /\ \E outcome \in ProxyAnswers :
       /\ AttemptEnds(Observed, outcome)
       /\ log' = Append(log, [outcome |-> outcome, slept |-> calls'[Observed].delay])
  /\ UNCHANGED <<session, closing, admissions, limiter_vars, searcher_vars, matcher_vars,
                 main_vars, call_vars, compared, pc, escaped>>

RetryNext ==
  \/ Enter
  \/ \E path \in Paths : BeginCall(Observed, path)
  \/ Admit(Observed)
  \/ ObservedAttempt
  \/ Wake(Observed)

RetrySpec == GatewayOnlyInit /\ [][RetryNext]_vars

(***************************************************************************)
(* The two limiters, with the session acquired and time passing.           *)
(***************************************************************************)
LimiterInit ==
  /\ session = "open"
  /\ restaurant = NoListing
  /\ GatewayInit
  /\ CallerInit
  /\ MainInit(<<>>)
  /\ NoCall

LimiterNext ==
  \/ \E c \in Callers :
       \/ \E path \in Paths : BeginCall(c, path)
       \/ Admit(c) \/ Attempt(c) \/ Wake(c)
  \/ \E p \in Paths : Leak(p)

LimiterSpec == LimiterInit /\ [][LimiterNext]_vars

(***************************************************************************)
(* The pipeline (main.py:70-82): the session is acquired, one task per     *)
(* listing runs under asyncio.gather, the session is released and the      *)
(* results are collected.  The task of listing t makes its gateway calls   *)
(* as caller t.                                                            *)
(***************************************************************************)
\* The most gateway requests one match makes: the search request and the
\* detail requests.
MaxRequests == 2

\* The path of the next request of a match: the search is a POST
\* (searcher.py:72), every detail request a GET (searcher.py:116).
PathOf(task) == IF task.requests = 0 THEN "post" ELSE "get"

\* What find_best_match can end as for a listing: the sentinel, a ranked
\* list, or an exception.
MatchOutcomes(listing) ==
  {Raise("RuntimeError"),
   Return(<<NoMatch(listing, "No candidates found")>>),
   Return(RankedMatches(listing, <<_create_business_record_from_search(Registry[1]).val>>))}

\* main.py:118, 121: `return None, None`.
NoResult == [match_result |-> None, validation_result |-> None]

\* main.py:125-149: the ValidationResult of a match that has a business.
ValidationOf(best_match) ==
  IF best_match.business = None THEN None
  ELSE Some([restaurant_name |-> best_match.restaurant.name,
             business_legal_name |-> best_match.business[1].legal_name,
             final_status |-> IF best_match.is_accepted THEN "accept" ELSE "manual_review"])

\* main.py:123-151
BestMatch(match_results_) ==
  [match_result |-> Some(match_results_[1]),
   validation_result |-> ValidationOf(match_results_[1])]

\* A faulty task, with no handler around find_best_match.
MatchUnguarded(r) ==
  IF r.exc # "none" THEN r
  ELSE IF r.val = <<>> THEN Return(NoResult)
  ELSE Return(BestMatch(r.val))

\* match_restaurant_to_legal_entity (main.py:106-151), given what
\* find_best_match ended as.
match_restaurant_to_legal_entity(r) ==
  IF Caught(r, {"Exception"}) THEN Return(NoResult)
  ELSE IF r.exc # "none" THEN r
  ELSE IF r.val = <<>> THEN Return(NoResult)
  ELSE Return(BestMatch(r.val))

\* A faulty wait, which returns once some task has finished.
AnyDone(tasks_) == \E t \in DOMAIN tasks_ : tasks_[t].pc = "done"

\* asyncio.gather(*tasks, return_exceptions=True) (main.py:77) returns once
\* every task has finished.
GatherDone(tasks_) == \A t \in DOMAIN tasks_ : tasks_[t].pc = "done"

\* main.py:162: isinstance(result, Exception)
IsError(r) == Caught(r, {"Exception"})

\* main.py:170-171: the match results that exist, in the order of the listings.
Collected(results) ==
  [i \in 1..Len(results) |-> results[i].val.match_result[1]]

\* main.py:177-178: error_rate > 0.05
RateExceeded(errors, restaurants) ==
  restaurants # <<>> /\ errors * 100 > 5 * Len(restaurants)

\* process_restaurant_results (main.py:153-190)
process_restaurant_results(results, restaurants) ==
  [match_results |->
     Collected(SelectSeq(results, LAMBDA r : ~IsError(r) /\ r.val.match_result # None)),
   validation_results |->
     SelectSeq(results, LAMBDA r : ~IsError(r) /\ r.val.validation_result # None),
   error_count |-> Len(SelectSeq(results, IsError)),
   raised |-> RateExceeded(Len(SelectSeq(results, IsError)), restaurants)]

\* `async with searcher` is entered (main.py:73, searcher.py:28-30,
\* zyte_client.py:41-56): a session is open afterwards; the tasks are handed
\* to asyncio.gather (main.py:76-77).
Acquire ==
  /\ main_pc = "start"
  /\ session' = "open"
  /\ acquisitions' = acquisitions + 1
  /\ main_pc' = "gathering"
  /\ UNCHANGED <<closing, admissions, http_sent, calls, log, limiter_vars, searcher_vars,
                 matcher_vars, pc, escaped, call_vars, compared, filtered_restaurants, tasks,
                 restaurant_results, match_results, error_count, releases>>

\* The event loop starts a task: find_best_match is called (main.py:113).
StartMatch(t) ==
  /\ main_pc # "start"
  /\ tasks[t].pc = "pending"
  /\ tasks' = [tasks EXCEPT ![t].pc = "matching"]
  /\ UNCHANGED <<gateway_vars, searcher_vars, matcher_vars, pc, escaped, call_vars, compared,
                 filtered_restaurants, main_pc, restaurant_results, match_results,
                 error_count, acquisitions, releases>>

\* The match makes its next gateway request.
Request(t) ==
  /\ tasks[t].pc = "matching"
  /\ tasks[t].requests < MaxRequests
  /\ BeginCall(t, PathOf(tasks[t]))

\* What the proxy answers to the one attempt of a call of a match: the total
\* timeout of the session, or an envelope.
TaskAnswers == {[kind |-> "raise", exc |-> "TimeoutError"]} \cup AnsweredAttempts({None})

\* The attempt of the call of a match.
TaskAttempt(t) == AttemptOn(t, TaskAnswers)

\* The gateway call of a match has returned or raised; the searcher turns
\* either into a value (searcher.py:86-88, 129-131) and the match goes on.
CallEnds(t) ==
  /\ tasks[t].pc = "matching"
  /\ calls[t].pc \in {"returned", "raised"}
  /\ calls' = [calls EXCEPT ![t] = IdleCall]
  /\ tasks' = [tasks EXCEPT ![t].requests = @ + 1]
  /\ UNCHANGED <<session, closing, admissions, http_sent, log, limiter_vars, searcher_vars,
                 matcher_vars, pc, escaped, call_vars, compared, filtered_restaurants, main_pc,
                 restaurant_results, match_results, error_count, acquisitions, releases>>

\* find_best_match ends, after the search request at least, and the task
\* with it (main.py:112-151).
EndMatch(t) ==
  /\ tasks[t].pc = "matching"
  /\ tasks[t].requests >= 1
  /\ calls[t].pc = "idle"
  /\ \E r \in MatchOutcomes(filtered_restaurants[t]) :
       tasks' = [tasks EXCEPT ![t].pc = "done", ![t].matched = Some(r),
                              ![t].outcome = Some(match_restaurant_to_legal_entity(r))]
  /\ UNCHANGED <<gateway_vars, searcher_vars, matcher_vars, pc, escaped, call_vars, compared,
                 filtered_restaurants, main_pc, restaurant_results, match_results,
                 error_count, acquisitions, releases>>

\* asyncio.gather returns what each task returned or raised (main.py:77).
Gather ==
  /\ main_pc = "gathering"
  /\ GatherDone(tasks)
  /\ restaurant_results' = [t \in DOMAIN tasks |-> tasks[t].outcome]
  /\ main_pc' = "exiting"
  /\ UNCHANGED <<gateway_vars, searcher_vars, matcher_vars, pc, escaped, call_vars, compared,
                 filtered_restaurants, tasks, match_results, error_count,
                 acquisitions, releases>>

\* The `async with` block is left: __aexit__ calls close() (searcher.py:32-33),
\* which closes an open session (zyte_client.py:64-67).
Release ==
  /\ main_pc = "exiting"
  /\ session' = IF session = "open" THEN "closed" ELSE session
  /\ closing' = (session = "open")
  /\ releases' = releases + 1
  /\ main_pc' = "closing"
  /\ UNCHANGED <<admissions, http_sent, calls, log, limiter_vars, searcher_vars,
                 matcher_vars, pc, escaped, call_vars, compared, filtered_restaurants, tasks,
                 restaurant_results, match_results, error_count, acquisitions>>

\* close() ends (zyte_client.py:68).
Released ==
  /\ main_pc = "closing"
  /\ DropSession

\* process_restaurant_results is called on what gather returned
\* (main.py:80-82); its RuntimeError ends main.
Process ==
  /\ main_pc = "closing"
  /\ ~closing
  /\ match_results' =
       process_restaurant_results([i \in DOMAIN restaurant_results |-> restaurant_results[i][1]],
                                  filtered_restaurants).match_results
  /\ error_count' =
       process_restaurant_results([i \in DOMAIN restaurant_results |-> restaurant_results[i][1]],
                                  filtered_restaurants).error_count
  /\ main_pc' =
       IF process_restaurant_results([i \in DOMAIN restaurant_results |-> restaurant_results[i][1]],
                                     filtered_restaurants).raised
         THEN "failed" ELSE "processed"
  /\ UNCHANGED <<gateway_vars, searcher_vars, matcher_vars, pc, escaped, call_vars, compared,
                 filtered_restaurants, tasks, restaurant_results, acquisitions, releases>>

\* The listings that passed the filters (main.py:63), one per task.
FilteredRestaurants == [t \in Callers |-> ListingSeq[((t - 1) % Len(ListingSeq)) + 1]]

PipelineInit ==
  /\ session = "none"
  /\ restaurant = NoListing
  /\ GatewayInit
  /\ CallerInit
  /\ MainInit(FilteredRestaurants)
  /\ NoCall

PipelineNext ==
  \/ Acquire \/ Gather \/ Release \/ Released \/ Process
  \/ \E t \in Callers :
       \/ StartMatch(t) \/ Request(t) \/ CallEnds(t) \/ EndMatch(t)
       \/ Admit(t) \/ TaskAttempt(t)
  \/ \E p \in Paths : Leak(p)

PipelineSpec == PipelineInit /\ [][PipelineNext]_vars

(***************************************************************************)
(* Functions applied on their own: _normalize_name to a name and then to   *)
(* what it returned, and _calculate_match_score to a listing, a business   *)
(* and a name score.                                                       *)
(***************************************************************************)
\* The words of the names normalized: two plain words, a dotted suffix no
\* legal term matches, two suffixes legal terms match, a stop word and a
\* parenthesis.
NameWords ==
  {<<"C","o","q","u","i">>,
   <<"B","a","r">>,
   <<"L",".","L",".","C",".">>,
   <<"I","n","c",".">>,
   <<"S",".","A",".">>,
   <<"E","l">>,
   <<"(","P","R",")">>}

\* The most words in a name, and the most times _normalize_name is applied.
MaxWords == 2

MaxPasses == 2

\* The names of n words, and of up to MaxWords words; the empty name.
RECURSIVE NamesOf(_)
NamesOf(n) ==
  IF n = 1 THEN NameWords
  ELSE {name \o <<" ">> \o w : name \in NamesOf(n - 1), w \in NameWords}

TestNames == {<<>>} \cup UNION {NamesOf(n) : n \in 1..MaxWords}

\* The text _normalize_name is applied to next: the name, then what the last
\* application returned.
NextText == IF returned = <<>> THEN args.name ELSE returned[Len(returned)]

\* _normalize_name(name) is called (matcher.py:23-47), once more on what it
\* returned.
Normalize ==
  /\ args.fn = "_normalize_name"
  /\ Len(returned) < MaxPasses
  /\ returned' = Append(returned, NormalizeText(NextText))
  /\ UNCHANGED <<gateway_vars, searcher_vars, matcher_vars, main_vars, compared, pc, escaped,
                 args>>

NormalizeInit ==
  /\ session = "none"
  /\ restaurant = NoListing
  /\ GatewayInit
  /\ CallerInit
  /\ MainInit(<<>>)
  /\ \E name \in TestNames : args = [fn |-> "_normalize_name", name |-> name]
  /\ returned = <<>>

NormalizeNext == Normalize

NormalizeSpec == NormalizeInit /\ [][NormalizeNext]_vars

\* The addresses of the businesses scored (BusinessRecord.business_address):
\* absent, empty, with the postal code last, with no postal code, with a
\* house number of five digits, with a postal code joined to letters and with
\* a longer number before it.
TestAddresses ==
  {NoneStr,
   <<"C","a","l","l","e"," ","1",","," ","S","a","n"," ","J","u","a","n",","," ","0","0","9","0","8">>,
   <<"C","a","l","l","e"," ","1",","," ","s","a","n"," ","j","u","a","n",","," ","0","0","7","1","6">>,
   <<"C","a","l","l","e"," ","1",","," ","S","a","n"," ","J","u","a","n">>,
   <<"1","2","3","4","5"," ","C","a","l","l","e"," ","S","o","l",","," ","P","o","n","c","e",","," ","0","0","9","0","8">>,
   <<"C","a","l","l","e"," ","1",","," ","S","a","n"," ","J","u","a","n"," ","P","R","0","0","9","0","8">>,
   <<"A","v","e"," ","1","2","3","4","5","6",","," ","P","o","n","c","e",","," ","0","0","9","0","8">>,
   <<>>}

\* A business with this address.
TestBusiness(address) ==
  [_create_business_record_from_search(Registry[1]).val EXCEPT !.business_address = address]

\* Name scores: fuzz.token_sort_ratio returns a float between 0 and 100.
TestNameScores == {ScoreOfInt(0), [num |-> 200, den |-> 3], ScoreOfInt(100)}

\* _calculate_match_score(restaurant, business, name_score) is called
\* (matcher.py:143-170).
CalculateMatchScore ==
  /\ args.fn = "_calculate_match_score"
  /\ returned = <<>>
  /\ returned' = <<_calculate_match_score(args.restaurant, args.business, args.name_score)>>
  /\ UNCHANGED <<gateway_vars, searcher_vars, matcher_vars, main_vars, compared, pc, escaped,
                 args>>

ScoreInit ==
  /\ session = "none"
  /\ restaurant = NoListing
  /\ GatewayInit
  /\ CallerInit
  /\ MainInit(<<>>)
  /\ \E l \in Listings, address \in TestAddresses, name_score \in TestNameScores :
       args = [fn |-> "_calculate_match_score", restaurant |-> l,
               business |-> TestBusiness(address), name_score |-> name_score]
  /\ returned = <<>>

ScoreNext == CalculateMatchScore

ScoreSpec == ScoreInit /\ [][ScoreNext]_vars

\* OpenAIClient.chat_completion is called (openai_client.py:36-81) and ends
\* on what client.chat.completions.create did.
ChatCompletion ==
  /\ args.fn = "chat_completion"
  /\ returned = <<>>
  /\ returned' = <<chat_completion(args.api)>>
  /\ UNCHANGED <<gateway_vars, searcher_vars, matcher_vars, main_vars, compared, pc, escaped,
                 args>>

CompletionInit ==
  /\ session = "none"
  /\ restaurant = NoListing
  /\ GatewayInit
  /\ CallerInit
  /\ MainInit(<<>>)
  /\ \E api \in ApiOutcomes : args = [fn |-> "chat_completion", api |-> api]
  /\ returned = <<>>

CompletionNext == ChatCompletion

CompletionSpec == CompletionInit /\ [][CompletionNext]_vars

(***************************************************************************)
(* The filter stage (filter.py:26-64, main.py:60-63).  A listing here is   *)
(* the part of a RestaurantRecord the filters read: is_closed, main_type   *)
(* and all_types.                                                          *)
(***************************************************************************)
\* filter.py:57-64
_collect_types(record) ==
  (IF Truthy(record.main_type) THEN {Lower(record.main_type)} ELSE {})
  \cup {Lower(Strip(record.all_types[i])) :
          i \in {j \in 1..Len(record.all_types) : Strip(record.all_types[j]) # <<>>}}

\* InactiveBusinessFilter.match (filter.py:34-37)
InactiveBusinessFilter_match(record) == ~record.is_closed

\* A type filter that lets the exclusion list win.
ExclusionWins(filter, record) ==
  filter.exclusion_types \cap _collect_types(record) = {}

\* BusinessTypeFilter.match (filter.py:49-55)
BusinessTypeFilter_match(filter, record) ==
  LET types == _collect_types(record)
      matches_exclusion == filter.exclusion_types \cap types # {}
      matches_inclusion == filter.inclusion_types \cap types # {}
  IN  ~(matches_exclusion /\ ~matches_inclusion)

\* filter.match(record) of a BusinessFilter
FilterMatch(filter, record) ==
  IF filter.class = "InactiveBusinessFilter" THEN InactiveBusinessFilter_match(record)
  ELSE BusinessTypeFilter_match(filter, record)

\* filter.py:29: all(filter.match(record) for filter in filters)
AllMatch(filters, record) == \A i \in 1..Len(filters) : FilterMatch(filters[i], record)

\* The type lists of the filter's test (test_filter.py:47-50).
business_type_filter ==
  [class |-> "BusinessTypeFilter",
   inclusion_types |-> {<<"r","e","s","t","a","u","r","a","n","t">>,
                        <<"f","o","o","d"," ","c","o","u","r","t">>},
   exclusion_types |-> {<<"b","a","r">>, <<"n","i","g","h","t","c","l","u","b">>}]

inactive_filter ==
  [class |-> "InactiveBusinessFilter", inclusion_types |-> {}, exclusion_types |-> {}]

\* The filter lists of main (main.py:63) and of the test (test_filter.py:60-63).
FilterLists ==
  {<<business_type_filter, inactive_filter>>, <<inactive_filter, business_type_filter>>}

\* Listings of the listing source: open and closed, with and without a main
\* type, with type lists that are empty, included, excluded or neither.
TypedListings ==
  {[is_closed |-> c, main_type |-> m, all_types |-> a] :
     c \in BOOLEAN,
     m \in {NoneStr, <<"B","a","r">>, <<"r","e","s","t","a","u","r","a","n","t">>},
     a \in {<<>>,
            <<<<" ","R","e","s","t","a","u","r","a","n","t"," ">>, <<" ">>>>,
            <<<<"b","a","r">>>>,
            <<<<"c","a","f","e">>>>}}

\* The most listings the listing source yields.
MaxListings == 2

\* One pass of the loop of apply_all_filters (filter.py:28-30): the next
\* record is taken from restaurants and yielded if every filter matches it.
ApplyAllFilters ==
  /\ args.fn = "apply_all_filters"
  /\ args.consumed < Len(args.restaurants)
  /\ LET record == args.restaurants[args.consumed + 1]
     IN  /\ returned' = IF AllMatch(args.filters, record)
                          THEN Append(returned, record) ELSE returned
         /\ args' = [args EXCEPT !.consumed = @ + 1]
  /\ UNCHANGED <<gateway_vars, searcher_vars, matcher_vars, main_vars, compared, pc, escaped>>

FilterInit ==
  /\ session = "none"
  /\ restaurant = NoListing
  /\ GatewayInit
  /\ CallerInit
  /\ MainInit(<<>>)
  /\ \E restaurants \in SeqsUpTo(TypedListings, MaxListings), filters \in FilterLists :
       args = [fn |-> "apply_all_filters", restaurants |-> restaurants,
               filters |-> filters, consumed |-> 0]
  /\ returned = <<>>

FilterNext == ApplyAllFilters

FilterSpec == FilterInit /\ [][FilterNext]_vars

(***************************************************************************)
(* The fuzzy prefilter of find_best_match on its own (matcher.py:235-244), *)
(* on search results long enough for the cut at ten to apply.              *)
(***************************************************************************)
\* The names of a long search result, as places in the registry.
PoolOrder == <<4, 1, 3, 2, 5, 1, 4, 3, 2, 5, 3, 1, 2, 4>>

\* A long search result: records with the registry's names, told apart by
\* their registration numbers.
Pool ==
  [i \in 1..Len(PoolOrder) |->
     [Registry[PoolOrder[i]] EXCEPT !.registrationNumber = 100 + i]]

\* What a search returns here: a run of consecutive records of the pool.
PoolResults ==
  {SubSeq(Pool, a, b) : a \in 1..Len(Pool), b \in 0..Len(Pool)}

\* matcher.py:215 and 235-244: the listing's name is normalized and the
\* search records are prefiltered.
PrefilterStep ==
  /\ args.fn = "prefilter"
  /\ returned = <<>>
  /\ returned' = <<Prefilter(_normalize_name(args.restaurant.name), args.search_records)>>
  /\ UNCHANGED <<gateway_vars, searcher_vars, matcher_vars, main_vars, compared, pc, escaped,
                 args>>

PrefilterInit ==
  /\ session = "none"
  /\ restaurant = NoListing
  /\ GatewayInit
  /\ CallerInit
  /\ MainInit(<<>>)
  /\ \E l \in Listings, records \in PoolResults :
       args = [fn |-> "prefilter", restaurant |-> l, search_records |-> records]
  /\ returned = <<>>

PrefilterNext == PrefilterStep

PrefilterSpec == PrefilterInit /\ [][PrefilterNext]_vars

(***************************************************************************)
(* The life of the gateway's session (zyte_client.py:41-68): a user of     *)
(* ZyteClient enters and leaves `async with` blocks, calls close() and     *)
(* makes requests.  acquisitions counts the sessions created, releases the *)
(* calls of close().                                                       *)
(***************************************************************************)
\* The most sessions created, and the most calls of close().
MaxScopes == 2

\* __aenter__ (zyte_client.py:41-56): the session afterwards.
__aenter__(s) == IF s = "none" \/ s = "closed" THEN "open" ELSE s

\* An exit that closes the session.
ExitCloses(s) == IF s = "open" THEN "none" ELSE s

\* __aexit__ (zyte_client.py:58-62): the session afterwards.
__aexit__(s) == s

\* `async with ZyteClient(...)` is entered.
EnterScope ==
  /\ pc # "inside"
  /\ session # "open" => acquisitions < MaxScopes
  /\ session' = __aenter__(session)
  /\ acquisitions' = IF session # "open" THEN acquisitions + 1 ELSE acquisitions
  /\ pc' = "inside"
  /\ UNCHANGED <<closing, admissions, http_sent, calls, log, limiter_vars, searcher_vars,
                 matcher_vars, call_vars, compared, escaped, filtered_restaurants, main_pc,
                 tasks, restaurant_results, match_results, error_count, releases>>

\* The block is left.
ExitScope ==
  /\ pc = "inside"
  /\ session' = __aexit__(session)
  /\ pc' = "outside"
  /\ UNCHANGED <<closing, admissions, http_sent, calls, log, limiter_vars, searcher_vars,
                 matcher_vars, call_vars, compared, escaped, main_vars>>

\* close() is called (zyte_client.py:64-67): an open session is closed, and
\* nothing is done otherwise.
CloseCalled ==
  /\ ~closing
  /\ releases < MaxScopes
  /\ releases' = releases + 1
  /\ session' = IF session = "open" THEN "closed" ELSE session
  /\ closing' = (session = "open")
  /\ UNCHANGED <<admissions, http_sent, calls, log, limiter_vars, searcher_vars,
                 matcher_vars, call_vars, compared, pc, escaped, filtered_restaurants, main_pc,
                 tasks, restaurant_results, match_results, error_count, acquisitions>>

SessionNext ==
  \/ EnterScope \/ ExitScope \/ CloseCalled \/ DropSession
  \/ \E c \in Callers :
       \/ \E path \in Paths : BeginCall(c, path)
       \/ Admit(c) \/ TaskAttempt(c)
  \/ \E p \in Paths : Leak(p)

SessionSpec == GatewayOnlyInit /\ [][SessionNext]_vars

(***************************************************************************)
(* Properties.                                                             *)
(***************************************************************************)
\* The last element of a non-empty sequence.
Last(seq) == seq[Len(seq)]

\* A gateway answer that is a well-formed envelope: the call returned, the
\* body is present and decodes, and the document validates.
WellFormed(gw) ==
  /\ gw.exc = "none"
  /\ gw.val # None
  /\ gw.val[1].httpResponseBody # None
  /\ gw.val[1].httpResponseBody[1].decodable
  /\ gw.val[1].httpResponseBody[1].doc.mapping
  /\ gw.val[1].httpResponseBody[1].doc.valid

\* The response object of a well-formed envelope (None when it has none).
ResponseOf(gw) == gw.val[1].httpResponseBody[1].doc.response

\* C1: when find_best_match has ended, no exception has left it and it has
\* returned a non-empty list of MatchResults for the listing, whatever the
\* search, the assistant and the detail requests did.
C1_ResultNeverEmpty ==
  pc = "done" =>
    /\ escaped = "none"
    /\ result # <<>>
    /\ \A i \in 1..Len(result) : result[i].restaurant = restaurant

\* C1's case: every candidate sent to detail resolution was dropped.
C1_Witness ==
  /\ pc = "done"
  /\ Len(top_3_records) >= 2
  /\ business_records = <<>>
  /\ result # <<>>

\* C2: when the search yields no candidate, find_best_match returns exactly
\* one MatchResult, with match_type "none", score 0, not accepted, no business
\* and the reason "No candidates found".
C2_NoCandidatesSentinel ==
  (pc = "done" /\ escaped = "none" /\ search_records = <<>>) =>
    /\ Len(result) = 1
    /\ result[1].match_type = "none"
    /\ ScoreEq(result[1].confidence_score, ScoreOfInt(0))
    /\ ~result[1].is_accepted
    /\ result[1].business = None
    /\ result[1].match_reason = <<"No candidates found">>

\* C2's case: the search failed and find_best_match has returned.
C2_Witness ==
  /\ pc = "done"
  /\ search_records = <<>>
  /\ search_response # None
  /\ search_response[1].exc # "none"
  /\ Len(result) = 1

\* The search answer is a well-formed envelope that carries records.
CarriesRecords(gw) ==
  /\ WellFormed(gw)
  /\ ResponseOf(gw) # None
  /\ ResponseOf(gw)[1].records # <<>>

\* C3: once search_business has handled the gateway's answer it has returned,
\* not raised, and what it returned is the records of a well-formed answer
\* that carries some, and the empty list for every other answer.
C3_SearchNeverRaises ==
  (search_response # None /\ pc # "searching") =>
    /\ escaped = "none"
    /\ search_records = IF CarriesRecords(search_response[1])
                          THEN ResponseOf(search_response[1])[1].records
                          ELSE <<>>

\* C3's case: the gateway call raised and search_business returned [].
C3_Witness ==
  /\ pc = "searched"
  /\ search_response # None
  /\ search_response[1].exc = "ClientResponseError"
  /\ search_records = <<>>

\* The detail answer is a well-formed envelope with no corporation block.
LacksCorporation(gw) ==
  /\ WellFormed(gw)
  /\ \/ ResponseOf(gw) = None
     \/ ResponseOf(gw)[1].corporation = None

\* The record made of the summary fields of a search record alone.
SummaryOf(record) ==
  [legal_name |-> IF Truthy(record.corpName) THEN record.corpName ELSE <<>>,
   registration_number |->
     IF record.registrationNumber # 0 THEN IntToStr(record.registrationNumber) ELSE <<>>,
   registration_index |->
     IF Truthy(record.registrationIndex) THEN record.registrationIndex ELSE <<>>,
   status |-> IF Truthy(record.statusEn) THEN record.statusEn ELSE <<>>,
   business_address |-> NoneStr,
   resident_agent_name |-> NoneStr,
   resident_agent_address |-> NoneStr]

\* The pass for the record before position idx has ended.
PassDone == pc \in {"details", "returned"} /\ idx > 1

\* C4: after the pass for a record that has no entity identifier, or whose
\* detail request raised, or whose detail envelope has no corporation block,
\* the last record appended is the one made of the search record's summary
\* fields, with no address and no resident agent.
C4_SummaryFallback ==
  (/\ PassDone
   /\ \/ ~FetchesDetails(top_3_records[idx - 1])
      \/ detail_response # None /\ detail_response[1].exc # "none"
      \/ detail_response # None /\ LacksCorporation(detail_response[1]))
  => /\ business_records # <<>>
     /\ Last(business_records) = SummaryOf(top_3_records[idx - 1])

\* C4's case: the detail request failed on every attempt.
C4_Witness ==
  /\ PassDone
  /\ FetchesDetails(top_3_records[idx - 1])
  /\ detail_response # None
  /\ detail_response[1].exc = "ClientResponseError"
  /\ business_records # <<>>
  /\ Last(business_records).business_address = NoneStr

\* A pass of the loop is about to end.
PassEnding ==
  \/ pc = "fetched"
  \/ pc = "details" /\ idx <= Len(top_3_records) /\ ~FetchesDetails(top_3_records[idx])

\* C5: whatever a pass of the loop meets, it leaves the records built so far
\* as they are, adds at most the record of its own candidate after them, lets
\* no exception out and moves on to the next candidate.
C5_PassesIndependent ==
  [][PassEnding =>
       /\ idx' = idx + 1
       /\ pc' = "details"
       /\ escaped' = "none"
       /\ \/ business_records' = business_records
          \/ /\ Len(business_records') = Len(business_records) + 1
             /\ SubSeq(business_records', 1, Len(business_records)) = business_records
             /\ Last(business_records').legal_name
                  = SummaryOf(top_3_records[idx]).legal_name]_vars

\* C5's case: the first candidate's pass failed and the second candidate's
\* record is there.
C5_Witness ==
  /\ pc = "returned"
  /\ Len(top_3_records) = 2
  /\ top_3_records[1].corpName # top_3_records[2].corpName
  /\ Len(business_records) = 1
  /\ business_records[1].legal_name = SummaryOf(top_3_records[2]).legal_name

\* C6: find_best_match returns one MatchResult for each candidate handed to
\* detail resolution.
C6_OneResultPerCandidate ==
  (pc = "done" /\ escaped = "none" /\ top_3_records # <<>>) =>
    Len(result) = Len(top_3_records)

\* C7: every BusinessRecord built has a non-empty registration_index.
C7_IndexNeverEmpty ==
  \A i \in 1..Len(business_records) : business_records[i].registration_index # <<>>

\* The similarity of a record's name to the listing's, as matcher.py:216 and
\* 239 compute it: the listing's name is normalized twice.
FuzzyScore(record) ==
  TokenSortRatio(NormalizeText(NormalizeText(restaurant.name)),
                 NormalizeText(record.corpName))

\* The position of a record in a list that holds it.
PositionIn(seq, x) == CHOOSE i \in 1..Len(seq) : seq[i] = x

\* ranked is the named records of search_records by falling similarity, ties
\* in the order of search_records.
IsFuzzyRanking(ranked, records) ==
  /\ Range(ranked) = {r \in Range(records) : Truthy(r.corpName)}
  /\ \A i, j \in 1..Len(ranked) :
       i < j =>
         /\ ScoreGE(FuzzyScore(ranked[i]), FuzzyScore(ranked[j]))
         /\ ScoreEq(FuzzyScore(ranked[i]), FuzzyScore(ranked[j]))
              => PositionIn(records, ranked[i]) < PositionIn(records, ranked[j])

\* The assistant's answer gives the rerank nothing to use: the call raised,
\* answered nothing, answered text neither decoder accepts or an object with
\* no "matches" key, or named no record of the prefiltered list.
Unusable(llm, legal_records) ==
  \/ llm.exc # "none"
  \/ llm.val = None
  \/ llm.val[1].content = None
  \/ /\ llm.val[1].content # None
     /\ \/ ~llm.val[1].content[1].strict /\ ~llm.val[1].content[1].relaxed
        \/ ~llm.val[1].content[1].value.hasMatches
        \/ /\ llm.val[1].content[1].value.iterable
           /\ \A i \in 1..Len(llm.val[1].content[1].value.matches) :
                \A k \in 1..Len(legal_records) :
                  NormalizeText(llm.val[1].content[1].value.matches[i])
                    # NormalizeText(legal_records[k].corpName)

\* seq[:3]
FirstThree(seq) == [i \in 1..(IF Len(seq) < 3 THEN Len(seq) ELSE 3) |-> seq[i]]

\* C8: when the assistant's answer is unusable, the rerank has not raised and
\* the candidates for detail resolution are the first three of the fuzzy
\* ranking, which the listing and the search records determine.
C8_FallbackTopThree ==
  (llm_response # None /\ pc # "answered" /\ Unusable(llm_response[1], top_10_records)) =>
    /\ escaped = "none"
    /\ pc = "ranked"
    /\ IsFuzzyRanking(top_10_records, search_records)
    /\ top_3_records = FirstThree(top_10_records)

\* C8's case: the assistant call raised and more than three candidates were
\* prefiltered.
C8_Witness ==
  /\ pc = "ranked"
  /\ llm_response # None
  /\ llm_response[1].exc = "APIStatusError"
  /\ Len(top_10_records) > 3
  /\ Len(top_3_records) = 3

\* C9: at most three candidates are passed to detail resolution, so at most
\* three detail requests are made and at most three results returned.
C9_AtMostThree ==
  /\ Len(top_3_records) <= 3
  /\ Len(detail_requests) <= 3
  /\ Len(result) <= 3

\* The calls among cs that the limiter of path p admitted, and the requests
\* they sent.
RECURSIVE SentBy(_, _)
SentBy(cs, p) ==
  IF cs = {} THEN 0
  ELSE LET c == CHOOSE x \in cs : TRUE
       IN  (IF calls[c].path = p THEN calls[c].sent ELSE 0) + SentBy(cs \ {c}, p)

AdmittedOn(p) == {c \in Callers : calls[c].admitted /\ calls[c].path = p}

\* C10: a call made while the session is None or closed has raised
\* RuntimeError, was not admitted by its limiter and sent nothing; the
\* admissions granted and the requests sent are those of the other calls.
C10_NotReadyFailsFirst ==
  /\ \A c \in Callers :
       (calls[c].pc # "idle" /\ calls[c].session_at_call # "open") =>
         /\ calls[c].pc = "raised"
         /\ calls[c].exc = "RuntimeError"
         /\ ~calls[c].admitted
         /\ calls[c].sent = 0
  /\ \A p \in Paths :
       /\ admissions[p] = Cardinality(AdmittedOn(p))
       /\ http_sent[p] = SentBy(AdmittedOn(p), p)

\* C10's case: one call was made after close() and one before the session
\* was acquired, on different paths.
C10_Witness ==
  \E c, d \in Callers :
    /\ calls[c].pc = "raised" /\ calls[c].session_at_call = "closed"
    /\ calls[d].pc = "raised" /\ calls[d].session_at_call = "none"
    /\ calls[c].path # calls[d].path

\* The observed call has ended after at least one attempt.
ObservedEnded == calls[Observed].pc \in {"returned", "raised"} /\ log # <<>>

\* A 5xx response.
ServerError(outcome) == outcome.kind = "status" /\ outcome.status >= 500

\* A 4xx response.
ClientError(outcome) ==
  outcome.kind = "status" /\ outcome.status >= 400 /\ outcome.status < 500

\* A network-level failure: a connection reset or a timeout.
NetworkError(outcome) ==
  outcome.kind = "raise" /\ outcome.exc \in {"ClientConnectionError", "TimeoutError"}

\* The error an attempt with this answer fails with.
ErrorOf(outcome) ==
  IF outcome.kind = "status" THEN "ClientResponseError" ELSE outcome.exc

\* C11: a call ends after at most max_retries attempts; when every attempt
\* failed with a 5xx response or a network-level error, exactly max_retries
\* attempts were made, retry_backoff * n seconds were slept after failed
\* attempt n < max_retries, nothing after the last, and the error of the
\* last attempt was raised.
C11_BoundedRetries ==
  /\ Len(log) <= max_retries
  /\ (ObservedEnded
      /\ \A i \in 1..Len(log) : ServerError(log[i].outcome) \/ NetworkError(log[i].outcome))
     => /\ Len(log) = max_retries
        /\ \A i \in 1..(Len(log) - 1) : log[i].slept = retry_backoff * i
        /\ Last(log).slept = 0
        /\ calls[Observed].pc = "raised"
        /\ calls[Observed].exc = ErrorOf(Last(log).outcome)

\* C12: a call whose attempt got a 4xx response has raised the response
\* error after that single attempt.
C12_ClientErrorNotRetried ==
  (log # <<>> /\ ClientError(log[1].outcome)) =>
    /\ Len(log) = 1
    /\ calls[Observed].pc = "raised"
    /\ calls[Observed].exc = "ClientResponseError"

\* C13: the limiter never fails a call, and whether a waiting call can be
\* admitted depends on the level of its own path's limiter alone: it can
\* exactly when that limiter has capacity, whatever the other one holds.
C13_SeparateLimiters ==
  \A c \in Callers :
    /\ calls[c].pc = "raised" => calls[c].admitted
    /\ calls[c].pc = "waiting" =>
         (ENABLED Admit(c) <=> level[calls[c].path] < Capacity)

\* C13's case: the budget of one path is exhausted by an admitted call while
\* a call waits on the other path, which has capacity.
C13_Witness ==
  \E c, d \in Callers :
    /\ calls[d].admitted
    /\ level[calls[d].path] = Capacity
    /\ calls[c].pc = "waiting"
    /\ calls[c].path # calls[d].path
    /\ level[calls[c].path] < Capacity

\* C14: within one time_period, the HTTP requests sent on a path, retries
\* included, do not exceed the path's budget.
C14_RequestsWithinBudget ==
  elapsed < time_period => \A p \in Paths : http_sent[p] <= Capacity

\* What find_best_match ended as in the task of listing t.
MatchedAs(t) == tasks[t].matched[1]

\* The task of listing t is over and its match raised.
MatchRaised(t) == tasks[t].pc = "done" /\ MatchedAs(t).exc # "none"

\* A call of a match that is in flight: past the readiness check, not ended.
InFlight(c) == calls[c].pc \in {"waiting", "attempting", "sleeping"}

\* C15: the session is acquired once, before any match starts, and released
\* once, after every match has completed and before main goes on, also when
\* matches raised; no gateway call of a match finds the session released,
\* neither at its readiness check nor while it is in flight.
C15_SessionScoped ==
  /\ acquisitions <= 1
  /\ releases <= 1
  /\ (\E t \in DOMAIN tasks : tasks[t].pc # "pending") => acquisitions = 1
  /\ releases = 1 => \A t \in DOMAIN tasks : tasks[t].pc = "done"
  /\ main_pc \in {"processed", "failed"} => (releases = 1 /\ session = "none")
  /\ \A c \in DOMAIN tasks :
       /\ calls[c].pc # "idle" => calls[c].session_at_call = "open"
       /\ InFlight(c) => session = "open"
       /\ calls[c].exc \notin {"RuntimeError", "AttributeError"}

\* C15's case: main is past the scope, the session released, and the match of
\* one listing raised after its gateway call while another made two calls.
C15_Witness ==
  /\ main_pc = "processed"
  /\ releases = 1
  /\ session = "none"
  /\ \E t, u \in DOMAIN tasks :
       /\ MatchRaised(t)
       /\ tasks[u].requests = MaxRequests
       /\ ~MatchRaised(u)

\* C16: a match that raised fails nothing but itself: main does not fail,
\* gather returns only when every task has finished, with each task's own
\* outcome, and the best match of every listing whose match returned a list
\* is among the results collected.
C16_SiblingsUnaffected ==
  /\ main_pc # "failed"
  /\ main_pc \notin {"start", "gathering"} =>
       \A t \in DOMAIN tasks :
         /\ tasks[t].pc = "done"
         /\ restaurant_results[t] = tasks[t].outcome
  /\ \A t \in DOMAIN tasks :
       (tasks[t].pc = "done" /\ ~MatchRaised(t)) =>
         /\ tasks[t].outcome = Some(Return(BestMatch(MatchedAs(t).val)))
         /\ main_pc = "processed" =>
              \E i \in 1..Len(match_results) : match_results[i] = MatchedAs(t).val[1]

\* C16's case: the match of one listing raised and a sibling's match, which
\* ended after it, is collected with its business.
C16_Witness ==
  /\ main_pc = "processed"
  /\ \E t, u \in DOMAIN tasks :
       /\ MatchRaised(t)
       /\ ~MatchRaised(u)
       /\ \E i \in 1..Len(match_results) :
            /\ match_results[i] = MatchedAs(u).val[1]
            /\ match_results[i].business # None

\* C17: the collected match results hold exactly one result per listing, in
\* the order of the listings, and the result of a listing whose match raised
\* is a sentinel of type "none".
C17_OneResultPerListing ==
  main_pc = "processed" =>
    /\ Len(match_results) = Len(filtered_restaurants)
    /\ \A i \in 1..Len(match_results) :
         /\ match_results[i].restaurant = filtered_restaurants[i]
         /\ MatchRaised(i) => match_results[i].match_type = "none"

\* C18: what _normalize_name returns for a name it returned is that name.
C18_NormalizeIdempotent ==
  Len(returned) >= 2 => returned[2] = returned[1]

\* The listing-side and candidate-side strings of every comparison made so far
\* are the normalized listing name and the normalized candidate name.
SidesNormalized ==
  \A i \in 1..Len(compared) :
    /\ compared[i].listing_side = _normalize_name(restaurant.name)
    /\ compared[i].candidate_side = _normalize_name(compared[i].candidate)

\* C19: in every comparison find_best_match makes, in the prefilter and in
\* the final scoring, the listing side is the normalized listing name and the
\* candidate side the normalized legal name of the candidate.
C19_SameNormalizationBothSides == SidesNormalized

\* The 5-digit code of an address and its city token, as the score reads
\* them: none for an absent address.
PostalCodeOf(address) == IF Truthy(address) THEN _extract_postal_code(address) ELSE <<>>

CityOf(address) == IF Truthy(address) THEN _extract_city(address) ELSE <<>>

\* The address has a 5-digit code and it is the listing's postal code.
PostalEqual(listing, address) ==
  PostalCodeOf(address) # <<>> /\ PostalCodeOf(address) = listing.postal_code

\* The address has a city token and it is the listing's city, whatever the case.
CityEqual(listing, address) ==
  CityOf(address) # <<>> /\ Lower(CityOf(address)) = Lower(listing.city)

\* The bonuses due to a listing and an address.
BonusDue(listing, address) ==
  (IF PostalEqual(listing, address) THEN POSTAL_CODE_BONUS ELSE 0)
  + (IF CityEqual(listing, address) THEN CITY_MATCH_BONUS ELSE 0)

\* C20: the final score is the name score plus the postal bonus exactly when
\* the address's 5-digit code is the listing's postal code, plus the city
\* bonus exactly when its city token is the listing's city, with no cap; so
\* it is 30 above the score of any business that differs by having no postal
\* match.
C20_ScoreIsNamePlusBonuses ==
  returned # <<>> =>
    /\ returned[1].final_score
         = ScorePlus(args.name_score, BonusDue(args.restaurant, args.business.business_address))
    /\ returned[1].postal_code_match
         = PostalEqual(args.restaurant, args.business.business_address)
    /\ returned[1].city_match = CityEqual(args.restaurant, args.business.business_address)
    /\ returned[1].postal_code_match =>
         \A other \in TestAddresses :
           (/\ ~PostalEqual(args.restaurant, other)
            /\ CityEqual(args.restaurant, other) = returned[1].city_match)
           => returned[1].final_score
                = ScorePlus(_calculate_match_score(args.restaurant, TestBusiness(other),
                                                   args.name_score).final_score,
                            POSTAL_CODE_BONUS)

\* C20's case: a name score of 100, a postal match and a city match: the
\* final score is 150, and there is an address that differs by the postal
\* match alone.
C20_Witness ==
  /\ returned # <<>>
  /\ args.name_score = ScoreOfInt(100)
  /\ returned[1].postal_code_match
  /\ returned[1].city_match
  /\ returned[1].final_score = ScoreOfInt(150)
  /\ \E other \in TestAddresses :
       /\ ~PostalEqual(args.restaurant, other)
       /\ CityEqual(args.restaurant, other)

\* The results of a finished find_best_match that were scored: those with a
\* business.
ScoredResults == {i \in 1..Len(result) : result[i].business # None}

\* C21: every scored MatchResult is "high" from 70 up, "medium" from 50 up to
\* 70 and "low" below, and is accepted exactly from 50 up.
C21_TierAndAcceptance ==
  pc = "done" =>
    \A i \in ScoredResults :
      /\ result[i].match_type =
           IF ScoreGE(result[i].confidence_score, ScoreOfInt(70)) THEN "high"
           ELSE IF ScoreGE(result[i].confidence_score, ScoreOfInt(50)) THEN "medium"
           ELSE "low"
      /\ result[i].is_accepted <=> ScoreGE(result[i].confidence_score, ScoreOfInt(50))

\* C21's case: one call returns a result of each tier.
C21_Witness ==
  /\ pc = "done"
  /\ \E i, j, k \in ScoredResults :
       /\ result[i].match_type = "high"
       /\ result[j].match_type = "medium"
       /\ result[k].match_type = "low"

\* The score find_best_match gives the k-th business that detail resolution
\* returned.
ScoreAt(k) == ScoredMatch(restaurant, business_records[k]).confidence_score

\* Where a list ordered best first, equal scores in resolution order, has the
\* k-th business: after every business of a higher score and every earlier
\* one of the same score.
PlaceOf(k) ==
  1 + Cardinality({m \in 1..Len(business_records) :
                     \/ ~ScoreGE(ScoreAt(k), ScoreAt(m))
                     \/ (m < k /\ ScoreEq(ScoreAt(m), ScoreAt(k)))})

\* C22: the list find_best_match returns is ordered by confidence_score, best
\* first, and results of equal score are in the order in which detail
\* resolution returned their businesses; the first is a highest-scoring one.
C22_BestFirstStable ==
  (pc = "done" /\ business_records # <<>>) =>
    /\ Len(result) = Len(business_records)
    /\ \A k \in 1..Len(business_records) :
         /\ result[PlaceOf(k)].business = Some(business_records[k])
         /\ ScoreGE(result[1].confidence_score, ScoreAt(k))
    /\ \A i \in 1..(Len(result) - 1) :
         ScoreGE(result[i].confidence_score, result[i + 1].confidence_score)

\* C22's case: three results, the best of which was resolved last, with two
\* different businesses of equal score behind it.
C22_Witness ==
  /\ pc = "done"
  /\ Len(result) = 3
  /\ result[1].business[1] = business_records[3]
  /\ ScoreEq(result[2].confidence_score, result[3].confidence_score)
  /\ result[2].business # result[3].business
  /\ ~ScoreEq(result[1].confidence_score, result[2].confidence_score)

\* The underlying API call of a finished chat_completion failed.
ApiFailed == args.fn = "chat_completion" /\ returned # <<>> /\ args.api.exc # "none"

\* C23: a chat_completion whose API call failed has returned None, whatever
\* the failure, and has not raised.
C23_FailureGivesNone == ApiFailed => returned[1] = Return(None)

\* The listing carries one of the exclusion types, one of the inclusion types
\* (its types are those _collect_types gathers).
CarriesExclusion(listing) ==
  business_type_filter.exclusion_types \cap _collect_types(listing) # {}

CarriesInclusion(listing) ==
  business_type_filter.inclusion_types \cap _collect_types(listing) # {}

\* The listing is open, and is not of an excluded type without being of an
\* included one.
Eligible(listing) ==
  ~listing.is_closed /\ ~(CarriesExclusion(listing) /\ ~CarriesInclusion(listing))

\* C24: the listings yielded so far are, in input order, exactly those of
\* the listings taken from the input that are not closed and do not carry an
\* exclusion type without an inclusion type.
C24_PassesExactlyWhenEligible ==
  args.fn = "apply_all_filters" =>
    returned = SelectSeq(SubSeq(args.restaurants, 1, args.consumed), Eligible)

\* C24's case: two listings were filtered, the first passed with both an
\* excluded and an included type, the second was dropped.
C24_Witness ==
  /\ args.fn = "apply_all_filters"
  /\ args.consumed = 2
  /\ returned = <<args.restaurants[1]>>
  /\ CarriesExclusion(args.restaurants[1]) /\ CarriesInclusion(args.restaurants[1])
  /\ ~args.restaurants[2].is_closed

\* The search records of the prefilter's input that have a legal name, in
\* registry order.
WithLegalName == SelectSeq(args.search_records, LAMBDA r : r.corpName \notin {NoneStr, <<>>})

\* The similarity of a record's legal name to the listing's name, as the
\* matcher's similarity function gives it for the normalized listing name
\* that find_best_match works with.
SimilarityTo(listing, record) ==
  _calculate_name_similarity(_normalize_name(listing.name), record.corpName)

\* The place of the k-th named record in a list ordered by similarity to the
\* listing's name, best first, ties in registry order.
RankOf(k) ==
  1 + Cardinality({m \in 1..Len(WithLegalName) :
        \/ ~ScoreGE(SimilarityTo(args.restaurant, WithLegalName[k]),
                    SimilarityTo(args.restaurant, WithLegalName[m]))
        \/ /\ m < k
           /\ ScoreEq(SimilarityTo(args.restaurant, WithLegalName[m]),
                      SimilarityTo(args.restaurant, WithLegalName[k]))})

NamesGiven ==
  /\ llm_response # None
  /\ llm_response[1].exc = "none"
  /\ llm_response[1].val # None
  /\ llm_response[1].val[1].hasContent
  /\ llm_response[1].val[1].content # None
  /\ LET text == llm_response[1].val[1].content[1]
     IN  /\ text.strict \/ text.relaxed
         /\ text.value.isDict /\ text.value.hasMatches /\ text.value.iterable

\* The names of that array.
AssistantNames == llm_response[1].val[1].content[1].value.matches

\* The name normalizes to the normalized legal name of a prefiltered record.
MapsBack(name) ==
  \E k \in 1..Len(top_10_records) :
    _normalize_name(name) = _normalize_name(top_10_records[k].corpName)

\* C26: every candidate of the rerank is one of the prefiltered records of
\* the call; the rerank of an array of names has not raised, and if a name
\* of the array maps back, the candidates are one prefiltered record for each
\* name that maps back, in the order of the names, the other names left out.
C26_UnmappableNamesDropped ==
  /\ \A i \in 1..Len(top_3_records) : top_3_records[i] \in Range(top_10_records)
  /\ (NamesGiven /\ pc # "answered") =>
       /\ escaped = "none"
       /\ LET kept == SelectSeq(AssistantNames, MapsBack)
          IN  (pc = "ranked" /\ kept # <<>>) =>
                /\ Len(top_3_records) = Len(kept)
                /\ \A i \in 1..Len(kept) :
                     _normalize_name(top_3_records[i].corpName) = _normalize_name(kept[i])

\* C26's case: the assistant named a prefiltered record, then an unknown
\* name, then another prefiltered record, and the two records are the
\* candidates.
C26_Witness ==
  /\ pc = "ranked"
  /\ NamesGiven
  /\ Len(AssistantNames) = 3
  /\ MapsBack(AssistantNames[1]) /\ ~MapsBack(AssistantNames[2]) /\ MapsBack(AssistantNames[3])
  /\ Len(top_3_records) = 2
  /\ top_3_records[1] # top_3_records[2]

\* C27: in the list find_best_match returns, a result has match_type "none"
\* exactly when it has no business, and then its score is 0 and it is the
\* whole list; an accepted result has a business and is of tier "high" or
\* "medium".
C27_SentinelAndAcceptance ==
  (pc = "done" /\ escaped = "none") =>
    \A i \in 1..Len(result) :
      /\ result[i].match_type = "none" <=> result[i].business = None
      /\ result[i].business = None =>
           /\ ScoreEq(result[i].confidence_score, ScoreOfInt(0))
           /\ Len(result) = 1
      /\ result[i].is_accepted =>
           /\ result[i].business # None
           /\ result[i].match_type \in {"high", "medium"}

\* C27's case: a call returned an accepted result and one of tier "low".
C27_Witness ==
  /\ pc = "done" /\ escaped = "none"
  /\ \E i, j \in 1..Len(result) :
       /\ result[i].is_accepted
       /\ result[j].business # None /\ result[j].match_type = "low"

\* The assistant can select the k-th prefiltered record: the dict of the
\* rerank gives that record for its normalized name.
Selectable(k) ==
  RecordLookup(top_10_records)[_normalize_name(top_10_records[k].corpName)]
    = top_10_records[k]

\* C28: the candidates handed to detail resolution are pairwise distinct, and
\* each prefiltered record can be selected by the assistant.
C28_NoCandidateTwice ==
  /\ \A i, j \in 1..Len(top_3_records) : i # j => top_3_records[i] # top_3_records[j]
  /\ \A k \in 1..Len(top_10_records) : Selectable(k)


\* C29: every detail request made is keyed by the registration index, not
\* empty, of one of the candidates; no request is made for a candidate that
\* has no registration index.
C29_KeyedByRegistrationIndex ==
  \A i \in 1..Len(detail_requests) :
    \E k \in 1..Len(top_3_records) :
      /\ Truthy(top_3_records[k].registrationIndex)
      /\ detail_requests[i] = top_3_records[k].registrationIndex

\* A request is made: a caller's call leaves "idle".
CallMade(c) == calls[c].pc = "idle" /\ calls'[c].pc # "idle"

====
